---- MODULE Spec2Model ----
(***************************************************************************)
(* Banking telemetry mock-data generator (src/main.ts): session and event  *)
(* synthesis, corpus assembly, the daily-rollup engine and the data        *)
(* validator, as a state machine.                                          *)
(*                                                                         *)
(* Conventions                                                             *)
(*  - A value of Math.random() is an integer r in 0..9999 standing for     *)
(*    r / 10000.  Every call site draws its value with \E from a named     *)
(*    set of representative values (a "draw universe", see CoarseDraws     *)
(*    and FineDraws).                                                      *)
(*  - An instant (a JS Date, or its ISO-8601 string) is an integer number  *)
(*    of hours since 2025-01-01T00:00Z; the minute, second and millisecond *)
(*    draws of generateTimestamp only fill the part below the hour, which  *)
(*    neither `day` nor `hour` reads.  The host time zone is a whole       *)
(*    number of hours east of UTC.                                         *)
(*  - A JS object is a function from field names to values; a field that   *)
(*    is missing or explicitly undefined is left out of the DOMAIN (this   *)
(*    is also what JSON.stringify writes).                                 *)
(*  - Weights and ratios are integers in hundredths.                       *)
(***************************************************************************)
EXTENDS Integers, Sequences, FiniteSets, TLC

VARIABLES
    tz,            \* host time-zone offset, hours east of UTC
    now,           \* the wall clock read by `new Date()`, hours since epoch
    pc,            \* position in the main script
    day,           \* generateRawEvents: the day loop's index (day offset)
    sessionsLeft,  \* generateRawEvents: sessions of `day` still to generate
    sess,          \* generateSession: the session context (NoSession outside)
    sessEvents,    \* generateSession: its local `events`
    events,        \* generateRawEvents: its local `events`
    rawEvents,     \* the corpus generateRawEvents returned
    dailyRollups,  \* what generateDailyRollups returned
    result,        \* what validateAll returned (NoResult before)
    mutated,       \* whether a test has overwritten an event's country
    files,         \* the files under data/ written so far
    exitCode,      \* the process's exit status, -1 while it runs
    choice         \* a weightedChoice call: its arguments and its outcome

vars == <<tz, now, pc, day, sessionsLeft, sess, sessEvents, events,
          rawEvents, dailyRollups, result, mutated, files, exitCode, choice>>

-----------------------------------------------------------------------------
(* Bounds of the model: CONFIG scaled down, and the size of drawn corpora. *)

\* CONFIG.TOTAL_EVENTS_TARGET (45000 in the source)
TOTAL_EVENTS_TARGET == 1
\* the literal 45000 that generateRawEvents scales SESSIONS_PER_DAY by
BASE_EVENTS_TARGET == 2
\* CONFIG.DATE_RANGE_DAYS (60 in the source)
DATE_RANGE_DAYS == 1
\* CONFIG.SESSIONS_PER_DAY (1200 in the source)
SESSIONS_PER_DAY == 1
\* CONFIG.EVENTS_PER_SESSION_AVG in tenths (52 in the source)
EVENTS_PER_SESSION_AVG_X10 == 10
\* longest corpus drawn by InitCorpus
MaxCorpus == 3
\* longest item list drawn by InitChoice
MaxItems == 3
\* CONFIG.DATE_RANGE_DAYS for the sessions InitVersion starts (60 in the
\* source)
VERSION_WINDOW_DAYS == 3

-----------------------------------------------------------------------------
(* Program constants. *)

\* denominator of a Math.random() value
RandDen == 100 * 100
ANALYTICS_RATIO == 65
PERFORMANCE_RATIO == 30
CRASH_RATIO == 5
\* validateSchema looks at the first 1000 events
SCHEMA_SAMPLE == 1000
\* validateRollupAccuracy looks at the first 10 rollups
ROLLUP_SAMPLE == 10
\* calculateDuration floors a duration at 100 ms
MIN_DURATION_MS == 100

HoursPerDay == 24

APPS == <<
    [id |-> "eabank_main", name |-> "EABank Mobile",
     countries |-> {"KE", "UG", "TZ", "SS", "RW"}, isBranchApp |-> FALSE],
    [id |-> "bancaire_drc", name |-> "Bancaire DRC",
     countries |-> {"DRC"}, isBranchApp |-> FALSE],
    [id |-> "eabank_branch", name |-> "EABank Branch",
     countries |-> {"KE", "UG", "TZ", "SS", "RW"}, isBranchApp |-> TRUE] >>

COUNTRIES == <<
    [code |-> "KE", weight |-> 35, carriers |-> <<"Safaricom", "Airtel Kenya">>,
     locales |-> <<[code |-> "EN", weight |-> 50], [code |-> "SW", weight |-> 45],
                   [code |-> "ZH", weight |-> 5]>>],
    [code |-> "UG", weight |-> 20, carriers |-> <<"MTN Uganda", "Airtel Uganda">>,
     locales |-> <<[code |-> "EN", weight |-> 85], [code |-> "SW", weight |-> 15]>>],
    [code |-> "TZ", weight |-> 18, carriers |-> <<"Vodacom Tanzania", "Airtel Tanzania">>,
     locales |-> <<[code |-> "SW", weight |-> 70], [code |-> "EN", weight |-> 30]>>],
    [code |-> "RW", weight |-> 12, carriers |-> <<"MTN Rwanda", "Airtel Rwanda">>,
     locales |-> <<[code |-> "RW", weight |-> 60], [code |-> "EN", weight |-> 25],
                   [code |-> "FR", weight |-> 15]>>],
    [code |-> "DRC", weight |-> 10, carriers |-> <<"Orange DRC", "Vodacom DRC">>,
     locales |-> <<[code |-> "FR", weight |-> 75], [code |-> "SW", weight |-> 15],
                   [code |-> "EN", weight |-> 10]>>],
    [code |-> "SS", weight |-> 5, carriers |-> <<"MTN South Sudan", "Zain South Sudan">>,
     locales |-> <<[code |-> "EN", weight |-> 90], [code |-> "FR", weight |-> 10]>>] >>

DEVICES == [
    ios |-> <<
        [model |-> "iPhone 14", tier |-> "high", weight |-> 8],
        [model |-> "iPhone 13", tier |-> "high", weight |-> 12],
        [model |-> "iPhone 12", tier |-> "mid", weight |-> 15],
        [model |-> "iPhone 11", tier |-> "mid", weight |-> 18],
        [model |-> "iPhone SE 3rd gen", tier |-> "low", weight |-> 25],
        [model |-> "iPhone XR", tier |-> "low", weight |-> 22]>>,
    android |-> <<
        [model |-> "Samsung Galaxy A54", tier |-> "mid", weight |-> 15],
        [model |-> "Samsung Galaxy A34", tier |-> "mid", weight |-> 18],
        [model |-> "Samsung Galaxy A13", tier |-> "low", weight |-> 20],
        [model |-> "Tecno Spark 10", tier |-> "low", weight |-> 22],
        [model |-> "Infinix Note 12", tier |-> "low", weight |-> 15],
        [model |-> "Oppo A57", tier |-> "low", weight |-> 10]>>,
    web |-> <<
        [model |-> "Chrome Desktop", tier |-> "high", weight |-> 45],
        [model |-> "Safari Desktop", tier |-> "high", weight |-> 15],
        [model |-> "Firefox Desktop", tier |-> "mid", weight |-> 25],
        [model |-> "Chrome Mobile", tier |-> "mid", weight |-> 15]>> ]

\* release_date is the number of days from 2025-01-01 to the release day
VERSIONS_WITH_RELEASES ==
  [ eabank_main |-> [
    prod |-> [
        ios |-> <<
            [version |-> "3.2.1", build_number |-> "3210", release_date |-> 190],
            [version |-> "3.1.5", build_number |-> "3150", release_date |-> 165],
            [version |-> "3.0.8", build_number |-> "3080", release_date |-> 139],
            [version |-> "2.9.3", build_number |-> "2930", release_date |-> 99]>>,
        android |-> <<
            [version |-> "3.2.1", build_number |-> "32100", release_date |-> 192],
            [version |-> "3.1.5", build_number |-> "31500", release_date |-> 168],
            [version |-> "3.0.8", build_number |-> "30800", release_date |-> 141],
            [version |-> "2.9.3", build_number |-> "29300", release_date |-> 101]>>,
        web |-> <<
            [version |-> "4.1.2", build_number |-> "4120", release_date |-> 188],
            [version |-> "4.0.8", build_number |-> "4080", release_date |-> 162],
            [version |-> "3.9.5", build_number |-> "3950", release_date |-> 134]>> ],
    pilot |-> [
        ios |-> <<
            [version |-> "3.3.0-pilot.2", build_number |-> "3302", release_date |-> 198],
            [version |-> "3.2.2-pilot.1", build_number |-> "3221", release_date |-> 185]>>,
        android |-> <<
            [version |-> "3.3.0-pilot.2", build_number |-> "33002", release_date |-> 199],
            [version |-> "3.2.2-pilot.1", build_number |-> "32201", release_date |-> 186]>>,
        web |-> <<
            [version |-> "4.2.0-pilot.2", build_number |-> "4202", release_date |-> 196],
            [version |-> "4.2.0-pilot.1", build_number |-> "4201", release_date |-> 194]>> ],
    uat |-> [
        ios |-> <<
            [version |-> "3.3.1-uat.5", build_number |-> "3315", release_date |-> 199],
            [version |-> "3.3.0-uat.8", build_number |-> "3308", release_date |-> 192]>>,
        android |-> <<
            [version |-> "3.3.1-uat.5", build_number |-> "33105", release_date |-> 199],
            [version |-> "3.3.0-uat.8", build_number |-> "33008", release_date |-> 193]>>,
        web |-> <<
            [version |-> "4.2.1-uat.3", build_number |-> "4213", release_date |-> 198],
            [version |-> "4.2.0-uat.7", build_number |-> "4207", release_date |-> 164]>> ],
    dev |-> [
        ios |-> <<
            [version |-> "3.4.0-dev.12", build_number |-> "34012", release_date |-> 199],
            [version |-> "3.4.0-dev.11", build_number |-> "34011", release_date |-> 198],
            [version |-> "3.4.0-dev.10", build_number |-> "34010", release_date |-> 197]>>,
        android |-> <<
            [version |-> "3.4.0-dev.12", build_number |-> "340012", release_date |-> 199],
            [version |-> "3.4.0-dev.11", build_number |-> "340011", release_date |-> 198]>>,
        web |-> <<
            [version |-> "4.3.0-dev.8", build_number |-> "4308", release_date |-> 199],
            [version |-> "4.2.0-dev.3", build_number |-> "4203", release_date |-> 198],
            [version |-> "4.1.0-dev.5", build_number |-> "4105", release_date |-> 197]>> ] ],
  bancaire_drc |-> [
    prod |-> [
        ios |-> <<
            [version |-> "2.1.3", build_number |-> "213", release_date |-> 194],
            [version |-> "2.0.9", build_number |-> "209", release_date |-> 170]>>,
        android |-> <<
            [version |-> "2.1.3", build_number |-> "21300", release_date |-> 195],
            [version |-> "2.0.9", build_number |-> "20900", release_date |-> 172]>>,
        web |-> <<
            [version |-> "2.5.1", build_number |-> "251", release_date |-> 191]>> ],
    pilot |-> [
        ios |-> <<
            [version |-> "2.2.0-pilot.1", build_number |-> "2201", release_date |-> 197]>>,
        android |-> <<
            [version |-> "2.2.0-pilot.1", build_number |-> "22001", release_date |-> 197]>>,
        web |-> <<
            [version |-> "2.6.0-pilot.1", build_number |-> "2601", release_date |-> 196]>> ],
    uat |-> [
        ios |-> <<
            [version |-> "2.2.1-uat.3", build_number |-> "2213", release_date |-> 198]>>,
        android |-> <<
            [version |-> "2.2.1-uat.3", build_number |-> "22103", release_date |-> 198]>>,
        web |-> <<
            [version |-> "2.6.1-uat.2", build_number |-> "2612", release_date |-> 198]>> ],
    dev |-> [
        ios |-> <<
            [version |-> "2.3.0-dev.5", build_number |-> "2305", release_date |-> 199]>>,
        android |-> <<
            [version |-> "2.3.0-dev.5", build_number |-> "23005", release_date |-> 199]>>,
        web |-> <<
            [version |-> "2.7.0-dev.3", build_number |-> "2703", release_date |-> 199]>> ] ],
  eabank_branch |-> [
    prod |-> [
        web |-> <<
            [version |-> "4.1.2", build_number |-> "4120", release_date |-> 189],
            [version |-> "4.0.8", build_number |-> "4080", release_date |-> 164]>>,
        ios |-> <<
            [version |-> "1.2.1", build_number |-> "121", release_date |-> 193]>>,
        android |-> <<
            [version |-> "1.2.1", build_number |-> "12100", release_date |-> 194]>> ],
    pilot |-> [
        web |-> <<
            [version |-> "4.2.0-pilot.1", build_number |-> "4201", release_date |-> 197]>> ],
    uat |-> [
        web |-> <<
            [version |-> "4.2.1-uat.2", build_number |-> "4212", release_date |-> 198]>> ],
    dev |-> [
        web |-> <<
            [version |-> "4.3.0-dev.6", build_number |-> "4306", release_date |-> 199]>> ] ] ]

API_ENDPOINTS == <<
    "v3/auth/login", "v3/accounts/balance", "v3/transfer/domestic",
    "v3/transfer/international", "v3/bills/pay", "v3/loans/apply",
    "v3/transactions/history", "v3/customer/profile", "v3/kyc/verify">>

BRANCH_ENDPOINTS == <<
    "v4/branch/customer/lookup", "v4/branch/accounts/open",
    "v4/branch/transactions/process", "v4/branch/cash/deposit",
    "v4/branch/cash/withdrawal", "v4/branch/kyc/update">>

CRASH_GROUPS == <<
    [id |-> "cg_network_timeout_main", type |-> "NetworkTimeoutException", weight |-> 25],
    [id |-> "cg_auth_failure", type |-> "AuthenticationException", weight |-> 18],
    [id |-> "cg_database_connection", type |-> "DatabaseException", weight |-> 15],
    [id |-> "cg_encryption_error", type |-> "EncryptionException", weight |-> 12],
    [id |-> "cg_network_timeout_drc", type |-> "NetworkTimeoutException", weight |-> 10],
    [id |-> "cg_memory_pressure", type |-> "OutOfMemoryError", weight |-> 8],
    [id |-> "cg_ui_thread_block", type |-> "ANRException", weight |-> 12]>>

TRANSACTION_TYPES == <<
    "domestic_transfer", "international_transfer", "bill_payment",
    "loan_payment", "mobile_money", "card_payment">>

ACCOUNT_TYPES == <<"savings", "current", "fixed_deposit", "loan">>

MOBILE_SCREENS == <<
    "Login", "Dashboard", "AccountBalance", "TransferMoney", "PayBills",
    "LoanApplication", "Settings", "TransactionHistory", "CustomerSupport",
    "TransferConfirmation", "BillPayConfirmation", "ProfileSettings">>

BRANCH_SCREENS == <<
    "CustomerLookup", "AccountOpening", "TransactionProcessing",
    "LoanProcessing", "CustomerService", "CashDeposit", "CashWithdrawal",
    "AccountMaintenance", "KYCVerification", "DocumentScanning">>

hourWeights == <<1, 1, 1, 1, 1, 2, 4, 8, 12, 18, 15, 12, 8, 10, 16, 12, 8, 6,
                 4, 3, 2, 1, 1, 1>>

-----------------------------------------------------------------------------
(* Arithmetic and JS helpers. *)

Max(a, b) == IF a >= b THEN a ELSE b
Min(a, b) == IF a <= b THEN a ELSE b
SetMin(S) == CHOOSE x \in S : \A y \in S : x <= y

\* Math.round(n / d) for d > 0: the nearest integer, halves rounded up
Round(n, d) == (2 * n + d) \div (2 * d)

\* `f in o && o[f] !== undefined`
Has(o, f) == f \in DOMAIN o

\* the elements of a sequence, as a set
Range(s) == {s[i] : i \in DOMAIN s}

RECURSIVE SumSeq(_)
SumSeq(s) == IF s = <<>> THEN 0 ELSE s[1] + SumSeq(Tail(s))

Weights(items) == [i \in DOMAIN items |-> items[i].weight]

\* the running total of the first k weights
CumWeight(ws, k) == SumSeq(SubSeq(ws, 1, k))

\* The index a cumulative subtraction over weights ws stops at for the draw r:
\* `random = Math.random() * total`, then the first item after whose weight
\* `random <= 0`; 0 when the loop ends without a hit.
SubtractionHit(ws, r) ==
    LET total == SumSeq(ws)
        hits == {k \in DOMAIN ws : r * total <= CumWeight(ws, k) * RandDen}
    IN  IF hits = {} THEN 0 ELSE SetMin(hits)

\* Variant of weightedChoice without the return after the loop.
weightedChoiceNoFallback(items, r) ==
    LET k == SubtractionHit(Weights(items), r)
    IN  IF k # 0 THEN items[k] ELSE [weight |-> 0]

\* weightedChoice(items) for the draw r; a loop that ends without a hit
\* falls through to the last item.
weightedChoice(items, r) ==
    LET k == SubtractionHit(Weights(items), r)
    IN  IF k # 0 THEN items[k] ELSE items[Len(items)]

randomChoice(array, r) == array[(r * Len(array)) \div RandDen + 1]

\* Date.prototype.toISOString().split("T")[0]: the UTC calendar date
ISODate(t) == ToString(t \div HoursPerDay)
\* Date.prototype.getUTCHours()
UTCHours(t) == t % HoursPerDay
\* Date.prototype.setHours(h) on instant t: the same local calendar date at
\* local hour h, in a host zone tzv hours east of UTC
SetHours(t, h, tzv) == ((t + tzv) \div HoursPerDay) * HoursPerDay + h - tzv

generateTimestamp(dayOffset, rHour, tzv, nowv) ==
    LET targetDay == nowv - dayOffset * HoursPerDay
        k == SubtractionHit(hourWeights, rHour)
        hour == IF k # 0 THEN k - 1 ELSE 0
        stamped == SetHours(targetDay, hour, tzv)
    IN  [timestamp |-> stamped, day |-> ISODate(stamped), hour |-> hour]

\* Math.max(100, Math.round(logNormal(...))): the log-normal draw has every
\* positive value in its support whatever the multipliers, so the rounded
\* draw ln is any natural number
calculateDuration(ln) == Max(MIN_DURATION_MS, ln)

calculateDaysSinceRelease(releaseDate, currentDate) ==
    (currentDate - releaseDate * HoursPerDay) \div HoursPerDay

\* 1000 * (1 + 2 * exp(-d / 3)), rounded; below -17 days the value already
\* pushes every crash probability above 1
SpikeMilli(d) ==
    IF d < -17 THEN 807858
    ELSE CASE d = -17 -> 579139 [] d = -16 -> 415254 [] d = -15 -> 297826
           [] d = -14 -> 213685 [] d = -13 -> 153396 [] d = -12 -> 110196
           [] d = -11 -> 79243  [] d = -10 -> 57063  [] d = -9 -> 41171
           [] d = -8 -> 29784   [] d = -7 -> 21625   [] d = -6 -> 15778
           [] d = -5 -> 11589   [] d = -4 -> 8587    [] d = -3 -> 6437
           [] d = -2 -> 4895    [] d = -1 -> 3791    [] d = 0 -> 3000
           [] d = 1 -> 2433     [] d = 2 -> 2027     [] d = 3 -> 1736
           [] d = 4 -> 1527     [] d = 5 -> 1378     [] d = 6 -> 1271
           [] d = 7 -> 1194     [] OTHER -> 1000

\* The crash probability in units of 1e-8: 0.002 * channel * tier * spike,
\* with the channel and tier factors in tenths and the spike in thousandths.
CrashProbability(version, deviceTier, releaseChannel, currentDate) ==
    LET channelX10 == CASE releaseChannel = "dev" -> 40
                        [] releaseChannel = "uat" -> 25
                        [] releaseChannel = "pilot" -> 18
                        [] OTHER -> 10
        tierX10 == CASE deviceTier = "low" -> 16
                     [] deviceTier = "high" -> 7
                     [] OTHER -> 10
        daysSinceRelease ==
            calculateDaysSinceRelease(version.release_date, currentDate)
        spike == IF daysSinceRelease <= 7 THEN SpikeMilli(daysSinceRelease)
                 ELSE 1000
    IN  2 * channelX10 * tierX10 * spike

\* Math.random() < baseProbability
shouldCrash(version, deviceTier, releaseChannel, currentDate, r) ==
    r * RandDen
        < CrashProbability(version, deviceTier, releaseChannel, currentDate)

FallbackVersion ==
    [version |-> "1.0.0", build_number |-> "1000", release_date |-> 0]

AdoptionWeight(daysSinceRelease) ==
    IF daysSinceRelease <= 3 THEN 10
    ELSE IF daysSinceRelease <= 7 THEN 40
    ELSE IF daysSinceRelease <= 14 THEN 80
    ELSE IF daysSinceRelease <= 30 THEN 100
    ELSE 60

chooseVersionForSession(appId, platform, releaseChannel, currentDate, r) ==
    IF appId \notin DOMAIN VERSIONS_WITH_RELEASES
       \/ releaseChannel \notin DOMAIN VERSIONS_WITH_RELEASES[appId]
    THEN FallbackVersion
    ELSE LET byPlatform == VERSIONS_WITH_RELEASES[appId][releaseChannel]
             platformVersions ==
                 IF platform \in DOMAIN byPlatform THEN byPlatform[platform]
                 ELSE <<>>
             weightedVersions ==
                 [i \in DOMAIN platformVersions |->
                     [version |-> platformVersions[i].version,
                      build_number |-> platformVersions[i].build_number,
                      release_date |-> platformVersions[i].release_date,
                      weight |-> AdoptionWeight(calculateDaysSinceRelease(
                          platformVersions[i].release_date, currentDate))]]
         IN  IF Len(platformVersions) = 0 THEN FallbackVersion
             ELSE weightedChoice(weightedVersions, r)

-----------------------------------------------------------------------------
(* generateSession *)

NoSession == [abandoned |-> TRUE]

\* String.prototype.toLowerCase on a country code
ToLowerCase(code) ==
    CASE code = "KE" -> "ke" [] code = "UG" -> "ug" [] code = "TZ" -> "tz"
      [] code = "RW" -> "rw" [] code = "DRC" -> "drc" [] code = "SS" -> "ss"

\* String(n).padStart(3, "0")
PadStart3(n) ==
    IF n < 10 THEN "00" \o ToString(n)
    ELSE IF n < 100 THEN "0" \o ToString(n)
    ELSE ToString(n)

\* Variant of AvailableApps that skips the country filter.
AvailableAppsAnyCountry(countryCode, isBranchSession) ==
    SelectSeq(APPS, LAMBDA a : a.isBranchApp = isBranchSession)

\* The apps generateSession may pick from: those listing the country, then
\* the branch apps for a branch session and the others for a customer one.
AvailableApps(countryCode, isBranchSession) ==
    SelectSeq(APPS, LAMBDA a : /\ countryCode \in a.countries
                               /\ a.isBranchApp = isBranchSession)

ReleaseChannel(r1, r2, r3) ==
    IF r1 < 7000 THEN "prod"
    ELSE IF r2 < 6000 THEN "pilot"
    ELSE IF r3 < 5000 THEN "uat"
    ELSE "dev"

NetworkType(r1, r2) ==
    IF r1 < 4000 THEN "wifi" ELSE IF r2 < 9000 THEN "cellular" ELSE "offline"

\* Variant of SessionCarrier that attaches a carrier off wifi, offline
\* sessions included.
SessionCarrierOffWifi(networkType, country, r) ==
    IF networkType # "wifi"
    THEN ("carrier" :> randomChoice(country.carriers, r))
    ELSE <<>>

\* `carrier`: one of the country's carriers on a cellular network, undefined
\* otherwise
SessionCarrier(networkType, country, r) ==
    IF networkType = "cellular"
    THEN ("carrier" :> randomChoice(country.carriers, r))
    ELSE <<>>

OsVersion(platform, r1, r2) ==
    IF platform = "ios"
    THEN "iOS " \o ToString(16 + (r1 * 2) \div RandDen) \o "."
             \o ToString((r2 * 6) \div RandDen)
    ELSE IF platform = "android"
    THEN "Android " \o ToString(11 + (r1 * 3) \div RandDen)
    ELSE "Web"

\* Math.max(2, Math.round(CONFIG.EVENTS_PER_SESSION_AVG + (r - 0.5) * 4))
EventCount(r) ==
    Max(2, Round(EVENTS_PER_SESSION_AVG_X10 * (RandDen \div 10)
                     + (r - RandDen \div 2) * 4, RandDen))

\* Everything generateSession decides before its event loop, from the draws
\* d (one field per Math.random()/randomUUID() call); when the filtered app
\* list is empty the function returns [] and only the drawn country and role
\* are kept, marked abandoned.
SessionContext(dayOffset, d, nowv) ==
    LET country == weightedChoice(COUNTRIES, d.country)
        locale == weightedChoice(country.locales, d.locale)
        isBranchSession == d.branch < 1500
        availableApps == AvailableApps(country.code, isBranchSession)
        app == randomChoice(availableApps, d.app)
        platform == IF isBranchSession /\ d.web < 8000 THEN "web"
                    ELSE randomChoice(<<"ios", "android", "web">>, d.platform)
        device == weightedChoice(DEVICES[platform], d.device)
        releaseChannel == ReleaseChannel(d.ch1, d.ch2, d.ch3)
        currentDate == nowv - dayOffset * HoursPerDay
        versionInfo == chooseVersionForSession(app.id, platform,
                           releaseChannel, currentDate, d.version)
        networkType == NetworkType(d.net1, d.net2)
        carrier == SessionCarrier(networkType, country, d.carrier)
    IN  IF Len(availableApps) = 0
        THEN [abandoned |-> TRUE, country |-> country,
              isBranchSession |-> isBranchSession]
        ELSE carrier @@
             [abandoned |-> FALSE,
              dayOffset |-> dayOffset,
              currentDate |-> currentDate,
              sessionId |-> "s_banking_" \o d.uuid,
              country |-> country,
              locale |-> locale,
              isBranchSession |-> isBranchSession,
              app |-> app,
              platform |-> platform,
              device |-> device,
              releaseChannel |-> releaseChannel,
              versionInfo |-> versionInfo,
              networkType |-> networkType,
              userId |-> "u_" \o ToLowerCase(country.code) \o "_"
                           \o (IF isBranchSession THEN "staff" ELSE "customer")
                           \o "_" \o ToString(d.user),
              osVersion |-> OsVersion(platform, d.os1, d.os2),
              eventCount |-> EventCount(d.count),
              hasTransaction |-> ~isBranchSession /\ d.txn < 3000]

\* The fields every event of the session starts from (baseEvent); `carrier`
\* is undefined unless the session is on a cellular network.
BaseEvent(s, id, timeInfo) ==
    (IF Has(s, "carrier") THEN ("carrier" :> s.carrier) ELSE <<>>) @@
    [id |-> id,
     timestamp |-> timeInfo.timestamp,
     day |-> timeInfo.day,
     hour |-> timeInfo.hour,
     app_id |-> s.app.id,
     app_name |-> s.app.name,
     platform |-> s.platform,
     release_channel |-> s.releaseChannel,
     app_version |-> s.versionInfo.version,
     build_number |-> s.versionInfo.build_number,
     os_version |-> s.osVersion,
     device_model |-> s.device.model,
     device_tier |-> s.device.tier,
     country |-> s.country.code,
     locale |-> s.locale.code,
     network_type |-> s.networkType,
     session_id |-> s.sessionId,
     user_pseudo_id |-> s.userId,
     count |-> 1,
     revenue_usd |-> 0,
     is_crash |-> 0,
     is_fatal |-> 0]

\* Variant of Currency that knows no Tanzanian shilling.
CurrencyWithoutTZS(countryCode) ==
    IF countryCode = "KE" THEN "KES"
    ELSE IF countryCode = "UG" THEN "UGX"
    ELSE "USD"

Currency(countryCode) ==
    IF countryCode = "KE" THEN "KES"
    ELSE IF countryCode = "UG" THEN "UGX"
    ELSE IF countryCode = "TZ" THEN "TZS"
    ELSE "USD"

BranchEvents == <<"customer_account_opened", "transaction_processed",
                  "kyc_completed", "cash_deposit", "customer_lookup">>

CustomerEvents == <<"login_success", "balance_check", "transaction_completed",
                    "bill_payment", "login_failed">>

\* `${country.code}_${area}_${sequence}`
BranchCode(s, d) ==
    s.country.code \o "_"
        \o randomChoice(<<"KMP", "CBD", "IND", "RES">>, d.area) \o "_"
        \o PadStart3((d.seq * 999) \div RandDen + 1)

\* Variant of BranchFields that attaches the branch code to account
\* openings only.
BranchFieldsOnOpening(analyticsEvent, s, d) ==
    IF analyticsEvent = "customer_account_opened"
    THEN [branch_code |-> BranchCode(s, d),
          account_type |-> randomChoice(ACCOUNT_TYPES, d.acct),
          value_num |-> 1]
    ELSE <<>>

\* What a branch analytics event carries besides its name and screen:
\* branch_code always, account_type and value_num for an account opening
\* (undefined otherwise).
BranchFields(analyticsEvent, s, d) ==
    [branch_code |-> BranchCode(s, d)]
    @@ (IF analyticsEvent = "customer_account_opened"
        THEN [account_type |-> randomChoice(ACCOUNT_TYPES, d.acct),
              value_num |-> 1]
        ELSE <<>>)

\* The analytics event of slot i; d holds the draws of this branch.
AnalyticsEvent(base, s, i, d) ==
    IF s.isBranchSession
    THEN LET analyticsEvent == randomChoice(BranchEvents, d.aevent)
         IN  [source |-> "analytics",
              event_name |-> analyticsEvent,
              analytics_event |-> analyticsEvent,
              screen |-> randomChoice(BRANCH_SCREENS, d.screen)]
             @@ BranchFields(analyticsEvent, s, d)
             @@ base
    ELSE LET analyticsEvent ==
                 IF s.hasTransaction /\ i = s.eventCount - 1
                 THEN "transaction_completed"
                 ELSE randomChoice(CustomerEvents, d.aevent)
             completed == analyticsEvent = "transaction_completed"
         IN  [source |-> "analytics",
              event_name |-> analyticsEvent,
              analytics_event |-> analyticsEvent,
              screen |-> randomChoice(MOBILE_SCREENS, d.screen)]
             @@ (IF completed
                 THEN [transaction_type |-> randomChoice(TRANSACTION_TYPES, d.txtype),
                       value_num |-> d.lognormal,
                       currency |-> Currency(s.country.code)]
                 ELSE <<>>)
             @@ base

StatusCode(isError, r1, r2) ==
    IF isError
    THEN (IF r1 < 6000 THEN 400 ELSE IF r2 < 7000 THEN 401 ELSE 500)
    ELSE 200

BranchTraces == <<"kyc_verification", "document_processing",
                  "account_validation", "cash_counting">>

CustomerTraces == <<"biometric_auth", "transaction_encryption",
                    "balance_calculation", "risk_assessment">>

\* Variant of HttpFields that leaves `success` as the plain performance
\* event set it.
HttpFieldsKeepSuccess(s, duration, d) ==
    LET isError == d.err < 1250
    IN  [http_method |-> randomChoice(<<"GET", "POST", "PUT">>, d.method),
         url_path |-> randomChoice(IF s.isBranchSession THEN BRANCH_ENDPOINTS
                                   ELSE API_ENDPOINTS, d.endpoint),
         status_code |-> StatusCode(isError, d.st1, d.st2),
         ttfb_ms |-> Round(duration * 4, 10),
         payload_bytes |-> d.payload,
         screen |-> randomChoice(IF s.isBranchSession THEN BRANCH_SCREENS
                                 ELSE MOBILE_SCREENS, d.screen)]

\* What the http branch assigns on top of the plain performance event.
HttpFields(s, duration, d) ==
    LET isError == d.err < 1250
    IN  [http_method |-> randomChoice(<<"GET", "POST", "PUT">>, d.method),
         url_path |-> randomChoice(IF s.isBranchSession THEN BRANCH_ENDPOINTS
                                   ELSE API_ENDPOINTS, d.endpoint),
         status_code |-> StatusCode(isError, d.st1, d.st2),
         success |-> ~isError,
         ttfb_ms |-> Round(duration * 4, 10),
         payload_bytes |-> d.payload,
         screen |-> randomChoice(IF s.isBranchSession THEN BRANCH_SCREENS
                                 ELSE MOBILE_SCREENS, d.screen)]

\* The performance event of a slot; d holds the draws of this branch.
PerformanceEvent(base, s, d) ==
    LET perfType == randomChoice(<<"http", "screen", "trace", "app_start">>,
                                 d.perftype)
        duration == calculateDuration(d.lognormal)
        plain == [source |-> "performance",
                  event_name |-> IF perfType = "http" THEN "api_call" ELSE perfType,
                  perf_type |-> perfType,
                  duration_ms |-> duration,
                  success |-> TRUE] @@ base
    IN  IF perfType = "http" THEN HttpFields(s, duration, d) @@ plain
        ELSE IF perfType = "screen"
        THEN [screen |-> randomChoice(IF s.isBranchSession THEN BRANCH_SCREENS
                                      ELSE MOBILE_SCREENS, d.screen),
              fps_avg |-> Max(20, Round(
                  (60 - (IF s.device.tier = "low" THEN 30
                         ELSE IF s.device.tier = "mid" THEN 15 ELSE 8)) * RandDen
                  + d.fps * 10, RandDen))] @@ plain
        ELSE IF perfType = "trace"
        THEN [trace_name |-> "banking:" \o randomChoice(
                  IF s.isBranchSession THEN BranchTraces ELSE CustomerTraces,
                  d.trace),
              cpu_ms |-> Round(duration * 8, 10),
              memory_mb |-> d.memory] @@ plain
        ELSE plain

\* Variant of CrashFields that does not set is_crash.
CrashFieldsNoFlag(s, d) ==
    LET crashGroup == weightedChoice(CRASH_GROUPS, d.group)
        isFatal == d.fatal < 1200
        crashTypes == IF s.platform = "android"
                      THEN <<"fatal", "nonfatal", "anr">>
                      ELSE <<"fatal", "nonfatal">>
    IN  [source |-> "crash",
         event_name |-> "crash",
         is_fatal |-> IF isFatal THEN 1 ELSE 0,
         crash_type |-> IF isFatal THEN "fatal"
                        ELSE randomChoice(
                            SelectSeq(crashTypes, LAMBDA t : t # "fatal"),
                            d.ctype),
         exception_type |-> crashGroup.type,
         crash_group_id |-> crashGroup.id,
         foreground |-> d.fg < 9000]

\* What the crash branch sets on top of baseEvent.
CrashFields(s, d) ==
    LET crashGroup == weightedChoice(CRASH_GROUPS, d.group)
        isFatal == d.fatal < 1200
        crashTypes == IF s.platform = "android"
                      THEN <<"fatal", "nonfatal", "anr">>
                      ELSE <<"fatal", "nonfatal">>
    IN  [source |-> "crash",
         event_name |-> "crash",
         is_crash |-> 1,
         is_fatal |-> IF isFatal THEN 1 ELSE 0,
         crash_type |-> IF isFatal THEN "fatal"
                        ELSE randomChoice(
                            SelectSeq(crashTypes, LAMBDA t : t # "fatal"),
                            d.ctype),
         exception_type |-> crashGroup.type,
         crash_group_id |-> crashGroup.id,
         foreground |-> d.fg < 9000]

\* Variant of CrashEvent that also records a duration.
CrashEventWithDuration(base, s, d) ==
    [duration_ms |-> MIN_DURATION_MS] @@ CrashFields(s, d) @@ base

CrashEvent(base, s, d) == CrashFields(s, d) @@ base

-----------------------------------------------------------------------------
(* Draw universes: for every Math.random()/randomUUID() call site, the     *)
(* representative values a run may draw there.  CoarseDraws keeps the      *)
(* whole pipeline (several sessions, shuffle, rollups, validation) small;  *)
(* FineDraws explores one generateSession call in detail.                  *)

CoarseDraws ==
    [tz |-> {0, 3},              \* UTC, Africa/Nairobi
     now |-> {4810},             \* 2025-07-20T10:00Z
     daily |-> {0, 9999},
     country |-> {0, 9000},      \* KE, DRC
     locale |-> {0, 9999},
     branch |-> {0, 5000},       \* branch, customer
     app |-> {0},
     web |-> {0},
     platform |-> {0},           \* ios
     device |-> {9999},          \* the last (low or mid tier) device
     ch1 |-> {0}, ch2 |-> {0}, ch3 |-> {0},               \* prod
     version |-> {0},
     net1 |-> {9000}, net2 |-> {0},                       \* cellular
     carrier |-> {0},
     user |-> {7},
     os1 |-> {0}, os2 |-> {0},
     count |-> {0},
     txn |-> {9000},
     uuid |-> {"a3f1"},
     hour |-> {3000},            \* 09h
     crash |-> {0, 9999},
     split |-> {0, 9000},        \* analytics, performance
     aevent |-> {0},
     screen |-> {0},
     acct |-> {0}, area |-> {0}, seq |-> {0},
     txtype |-> {0},
     lognormal |-> {1500},
     perftype |-> {0},           \* http
     err |-> {0, 5000}, st1 |-> {9000}, st2 |-> {9000},   \* 500, 200
     method |-> {0}, endpoint |-> {0}, payload |-> {8000},
     fps |-> {0}, trace |-> {0}, memory |-> {80},
     group |-> {0}, fatal |-> {0}, ctype |-> {0}, fg |-> {0}]

FineDraws ==
    [tz |-> {-5, 0, 3},          \* America/New_York (EST), UTC, Africa/Nairobi
     now |-> {4810},             \* 2025-07-20T10:00Z
     daily |-> {0},
     country |-> {0, 4000, 6000, 9000},   \* KE, UG, TZ, DRC
     locale |-> {0},
     branch |-> {0, 5000},       \* branch, customer
     app |-> {0},
     web |-> {0, 9000},          \* branch session on web, on a drawn platform
     platform |-> {4000},        \* android
     device |-> {0},
     ch1 |-> {0, 9000}, ch2 |-> {9000}, ch3 |-> {9000},   \* prod, dev
     version |-> {0},
     net1 |-> {0, 9000}, net2 |-> {0, 9500},     \* wifi, cellular, offline
     carrier |-> {0, 5000},
     user |-> {7},
     os1 |-> {0}, os2 |-> {0},
     count |-> {0},
     txn |-> {0, 9000},          \* flagged for a transaction, not flagged
     uuid |-> {"a3f1"},
     hour |-> {0, 9999},         \* 00h, 23h
     crash |-> {0, 9999},
     split |-> {0, 9000},        \* analytics, performance
     aevent |-> {0, 5000},       \* the first and the third event name
     screen |-> {0},
     acct |-> {0}, area |-> {0}, seq |-> {0},
     txtype |-> {0},
     lognormal |-> {1500},
     perftype |-> {0, 9000},     \* http, app_start
     err |-> {0, 5000}, st1 |-> {0, 9000}, st2 |-> {0, 9000},
     method |-> {0}, endpoint |-> {0}, payload |-> {8000},
     fps |-> {0}, trace |-> {0}, memory |-> {80},
     group |-> {0}, fatal |-> {0, 5000}, ctype |-> {0}, fg |-> {0}]

-----------------------------------------------------------------------------
(* The state machine. *)

NoResult == [returned |-> FALSE]

\* no weightedChoice call under observation
NoChoice == [called |-> FALSE]

\* sessionsPerDay = Math.round(SESSIONS_PER_DAY * (TOTAL_EVENTS_TARGET / 45000))
SessionsPerDay ==
    Round(SESSIONS_PER_DAY * TOTAL_EVENTS_TARGET, BASE_EVENTS_TARGET)

\* Math.round(sessionsPerDay * weekendMultiplier * (0.8 + Math.random() * 0.4))
DailySessions(d, r) ==
    LET isWeekend == d % 7 = 5 \/ d % 7 = 6
        weekendX10 == IF isWeekend THEN 3 ELSE 10
    IN  Round(SessionsPerDay * weekendX10 * (8 * RandDen + r * 4),
              10 * 10 * RandDen)

\* `evt_${randomUUID()}`: a fresh identifier, here the event's serial number
FreshId == "evt_" \o ToString(Len(events) + Len(sessEvents) + 1)

\* The state when the main script starts.
Init ==
    /\ tz \in CoarseDraws.tz
    /\ now \in CoarseDraws.now
    /\ pc = "dayLoop"
    /\ day = 0
    /\ sessionsLeft = 0
    /\ sess = NoSession
    /\ sessEvents = <<>>
    /\ events = <<>>
    /\ rawEvents = <<>>
    /\ dailyRollups = <<>>
    /\ result = NoResult
    /\ mutated = FALSE
    /\ files = {}
    /\ exitCode = -1
    /\ choice = NoChoice

\* generateRawEvents: the head of one iteration of the day loop
BeginDay(U) ==
    /\ pc = "dayLoop"
    /\ day < DATE_RANGE_DAYS
    /\ \E r \in U.daily : sessionsLeft' = DailySessions(day, r)
    /\ pc' = "sessionLoop"
    /\ UNCHANGED <<tz, now, day, sess, sessEvents, events, rawEvents,
                   dailyRollups, result, mutated, files,
                   exitCode, choice>>

\* generateSession(day) up to its event loop, or its early `return []`
StartSession(U) ==
    /\ pc = "sessionLoop"
    /\ sessionsLeft > 0
    /\ \E rCountry \in U.country, rLocale \in U.locale, rBranch \in U.branch,
          rApp \in U.app, rWeb \in U.web, rPlatform \in U.platform,
          rDevice \in U.device, rCh1 \in U.ch1, rCh2 \in U.ch2,
          rCh3 \in U.ch3, rVersion \in U.version, rNet1 \in U.net1,
          rNet2 \in U.net2, rCarrier \in U.carrier, rUser \in U.user,
          rOs1 \in U.os1, rOs2 \in U.os2, rCount \in U.count,
          rTxn \in U.txn, uuid \in U.uuid :
        LET s == SessionContext(day,
                     [country |-> rCountry, locale |-> rLocale,
                      branch |-> rBranch, app |-> rApp, web |-> rWeb,
                      platform |-> rPlatform, device |-> rDevice,
                      ch1 |-> rCh1, ch2 |-> rCh2, ch3 |-> rCh3,
                      version |-> rVersion, net1 |-> rNet1, net2 |-> rNet2,
                      carrier |-> rCarrier, user |-> rUser, os1 |-> rOs1,
                      os2 |-> rOs2, count |-> rCount, txn |-> rTxn,
                      uuid |-> uuid], now)
        IN  IF s.abandoned
            THEN /\ sessionsLeft' = sessionsLeft - 1
                 /\ sess' = s
                 /\ UNCHANGED pc
            ELSE /\ sess' = s
                 /\ pc' = "session"
                 /\ UNCHANGED sessionsLeft
    /\ sessEvents' = <<>>
    /\ UNCHANGED <<tz, now, day, events, rawEvents, dailyRollups, result,
                   mutated, files,
                   exitCode, choice>>

\* generateSession: one iteration of the event loop
SynthesizeEvent(U) ==
    /\ pc = "session"
    /\ Len(sessEvents) < sess.eventCount
    /\ \E rHour \in U.hour, rCrash \in U.crash :
        LET i == Len(sessEvents)
            base == BaseEvent(sess, FreshId,
                        generateTimestamp(sess.dayOffset, rHour, tz, now))
        IN  IF shouldCrash(sess.versionInfo, sess.device.tier,
                           sess.releaseChannel, sess.currentDate, rCrash)
            THEN \E rGroup \in U.group, rFatal \in U.fatal,
                    rCtype \in U.ctype, rFg \in U.fg :
                   sessEvents' = Append(sessEvents, CrashEvent(base, sess,
                       [group |-> rGroup, fatal |-> rFatal, ctype |-> rCtype,
                        fg |-> rFg]))
            ELSE \E rSplit \in U.split :
                   IF rSplit * (ANALYTICS_RATIO + PERFORMANCE_RATIO)
                          < ANALYTICS_RATIO * RandDen
                   THEN \E rEvent \in U.aevent, rScreen \in U.screen,
                           rAcct \in U.acct, rArea \in U.area, rSeq \in U.seq,
                           rTxtype \in U.txtype, ln \in U.lognormal :
                          sessEvents' = Append(sessEvents,
                              AnalyticsEvent(base, sess, i,
                                  [aevent |-> rEvent, screen |-> rScreen,
                                   acct |-> rAcct, area |-> rArea,
                                   seq |-> rSeq, txtype |-> rTxtype,
                                   lognormal |-> ln]))
                   ELSE \E rPerf \in U.perftype, ln \in U.lognormal,
                           rErr \in U.err, rSt1 \in U.st1, rSt2 \in U.st2,
                           rMethod \in U.method, rEndpoint \in U.endpoint,
                           payload \in U.payload, rScreen \in U.screen,
                           rFps \in U.fps, rTrace \in U.trace,
                           memory \in U.memory :
                          sessEvents' = Append(sessEvents,
                              PerformanceEvent(base, sess,
                                  [perftype |-> rPerf, lognormal |-> ln,
                                   err |-> rErr, st1 |-> rSt1, st2 |-> rSt2,
                                   method |-> rMethod, endpoint |-> rEndpoint,
                                   payload |-> payload, screen |-> rScreen,
                                   fps |-> rFps, trace |-> rTrace,
                                   memory |-> memory]))
    /\ UNCHANGED <<tz, now, pc, day, sessionsLeft, sess, events, rawEvents,
                   dailyRollups, result, mutated, files,
                   exitCode, choice>>

\* generateSession returns; generateRawEvents pushes its events
ReturnSession ==
    /\ pc = "session"
    /\ Len(sessEvents) = sess.eventCount
    /\ events' = events \o sessEvents
    /\ sessionsLeft' = sessionsLeft - 1
    /\ sess' = NoSession
    /\ sessEvents' = <<>>
    /\ pc' = "sessionLoop"
    /\ UNCHANGED <<tz, now, day, rawEvents, dailyRollups, result, mutated, files,
                   exitCode, choice>>

\* generateRawEvents: the session loop of a day is over
EndDay ==
    /\ pc = "sessionLoop"
    /\ sessionsLeft = 0
    /\ day' = day + 1
    /\ pc' = "dayLoop"
    /\ UNCHANGED <<tz, now, sessionsLeft, sess, sessEvents, events,
                   rawEvents, dailyRollups, result, mutated, files,
                   exitCode, choice>>

-----------------------------------------------------------------------------
(* generateRawEvents: shuffle and truncation *)

\* [events[i], events[j]] = [events[j], events[i]], on 0-based positions
Swap(s, i, j) == [s EXCEPT ![i + 1] = s[j + 1], ![j + 1] = s[i + 1]]

\* Every outcome of the Fisher-Yates loop from position i down to 1, where
\* j = Math.floor(Math.random() * (i + 1)) is any of 0..i.
RECURSIVE Shuffles(_, _)
Shuffles(s, i) ==
    IF i <= 0 THEN {s}
    ELSE UNION {Shuffles(Swap(s, i, j), i - 1) : j \in 0 .. i}

\* Array.prototype.slice(0, n)
Slice(s, n) == SubSeq(s, 1, Min(Len(s), n))

\* variant: the shuffled list returned whole
TruncateKeepAll(s) == s

\* events.slice(0, CONFIG.TOTAL_EVENTS_TARGET)
Truncate(s) == Slice(s, TOTAL_EVENTS_TARGET)

\* generateRawEvents: after the last day, shuffle, truncate and return
ShuffleAndReturn ==
    /\ pc = "dayLoop"
    /\ day = DATE_RANGE_DAYS
    /\ \E shuffled \in Shuffles(events, Len(events) - 1) :
          rawEvents' = Truncate(shuffled)
    /\ pc' = "rollup"
    /\ UNCHANGED <<tz, now, day, sessionsLeft, sess, sessEvents, events,
                   dailyRollups, result, mutated, files,
                   exitCode, choice>>

-----------------------------------------------------------------------------
(* generateDailyRollups *)

EventGroup(e) ==
    IF e.source = "performance" THEN "performance:" \o e.event_name
    ELSE IF e.source = "analytics"
    THEN "analytics:" \o (IF Has(e, "analytics_event") THEN e.analytics_event
                          ELSE "undefined")
    ELSE "crash:" \o (IF e.is_fatal # 0 THEN "fatal" ELSE "nonfatal")

\* Array.prototype.join("|") on the fields of a template string: the key is
\* the sequence of its fields and separators
RECURSIVE JoinBar(_)
JoinBar(fields) ==
    IF Len(fields) = 0 THEN <<>>
    ELSE IF Len(fields) = 1 THEN <<fields[1]>>
    ELSE <<fields[1], "|">> \o JoinBar(Tail(fields))

\* key.split("|"): the runs between separators
RECURSIVE SplitBar(_)
SplitBar(key) ==
    LET bars == {k \in DOMAIN key : key[k] = "|"}
    IN  IF bars = {} THEN <<key>>
        ELSE LET k == SetMin(bars)
             IN  <<SubSeq(key, 1, k - 1)>> \o SplitBar(SubSeq(key, k + 1, Len(key)))

\* the string a run of a split key stands for
RECURSIVE Text(_)
Text(run) == IF run = <<>> THEN "" ELSE run[1] \o Text(Tail(run))

\* Variant of RollupKey that leaves device_tier out of the key.
RollupKeyNoTier(e) ==
    JoinBar(<<e.day, e.source, e.platform, e.app_id, e.app_version,
              e.release_channel, e.country, EventGroup(e)>>)

\* `${day}|${source}|...|${eventGroup}`
RollupKey(e) ==
    JoinBar(<<e.day, e.source, e.platform, e.app_id, e.app_version,
              e.release_channel, e.country, e.device_tier, EventGroup(e)>>)

\* The keys of the `rollups` Map in insertion order: each key once, at its
\* first occurrence.
RECURSIVE MapKeys(_, _)
MapKeys(evs, seen) ==
    IF evs = <<>> THEN <<>>
    ELSE LET k == RollupKey(evs[1])
         IN  IF k \in seen THEN MapKeys(Tail(evs), seen)
             ELSE <<k>> \o MapKeys(Tail(evs), seen \cup {k})

\* group.events of a key
GroupEvents(evs, key) == SelectSeq(evs, LAMBDA e : RollupKey(e) = key)

RECURSIVE InsertSorted(_, _)
InsertSorted(x, s) ==
    IF s = <<>> THEN <<x>>
    ELSE IF x <= s[1] THEN <<x>> \o s
    ELSE <<s[1]>> \o InsertSorted(x, Tail(s))

\* Array.prototype.sort((a, b) => a - b)
RECURSIVE SortAscending(_)
SortAscending(s) ==
    IF s = <<>> THEN <<>> ELSE InsertSorted(s[1], SortAscending(Tail(s)))

\* Variant of GroupDurations that skips the sort.
GroupDurationsUnsorted(group) ==
    LET withDuration == SelectSeq(group, LAMBDA e : Has(e, "duration_ms"))
    IN  [i \in DOMAIN withDuration |-> withDuration[i].duration_ms]

\* the defined duration_ms values of a group, ascending
GroupDurations(group) ==
    LET withDuration == SelectSeq(group, LAMBDA e : Has(e, "duration_ms"))
    IN  SortAscending([i \in DOMAIN withDuration |-> withDuration[i].duration_ms])

\* Math.floor(n * q) for q = pct / 100
PercentileIndex(n, pct) == (n * pct) \div 100

\* `rollup.f = durations[i]`: reading past the end of an array yields
\* undefined, which leaves the field unset
PercentileField(f, durations, i) ==
    IF i + 1 \in DOMAIN durations THEN (f :> durations[i + 1]) ELSE <<>>

\* avg/p50/p90/p99, set only for a group with a duration
DurationFields(durations) ==
    LET n == Len(durations)
    IN  IF n > 0
        THEN [avg_duration_ms |-> Round(SumSeq(durations), n)]
             @@ PercentileField("p50_duration_ms", durations, PercentileIndex(n, 50))
             @@ PercentileField("p90_duration_ms", durations, PercentileIndex(n, 90))
             @@ PercentileField("p99_duration_ms", durations, PercentileIndex(n, 99))
        ELSE <<>>

\* A quotient a / b kept exact, as numerator and denominator.
Ratio(a, b) == [num |-> a, den |-> b]

\* Variant of CrashRateField that divides the sessions by the events.
CrashRateFieldInverted(source, nEvents, nSessions) ==
    IF source = "crash"
    THEN [crash_rate_per_1k_sessions |-> Ratio(nSessions * 1000, nEvents)]
    ELSE <<>>

\* crash_rate_per_1k_sessions = (group.events.length / group.sessions.size)
\* * 1000, set on crash rollups only
CrashRateField(source, nEvents, nSessions) ==
    IF source = "crash"
    THEN [crash_rate_per_1k_sessions |-> Ratio(nEvents * 1000, nSessions)]
    ELSE <<>>

\* The rollup record of one key and its group.
Rollup(key, group) ==
    LET parts == SplitBar(key)
        part(k) == IF k \in DOMAIN parts THEN Text(parts[k]) ELSE "undefined"
        httpEvents == SelectSeq(group,
            LAMBDA e : Has(e, "status_code") /\ e.status_code # 0)
        httpErrors == SelectSeq(httpEvents, LAMBDA e : e.status_code >= 400)
        users == {group[i].user_pseudo_id : i \in DOMAIN group}
        sessions == {group[i].session_id : i \in DOMAIN group}
    IN  DurationFields(GroupDurations(group))
        @@ (IF Len(httpEvents) > 0
            THEN [http_error_rate |-> Ratio(Len(httpErrors), Len(httpEvents))]
            ELSE <<>>)
        @@ CrashRateField(part(2), Len(group), Cardinality(sessions))
        @@ [day |-> part(1),
            source |-> part(2),
            platform |-> part(3),
            app_id |-> part(4),
            app_version |-> part(5),
            release_channel |-> part(6),
            country |-> part(7),
            device_tier |-> part(8),
            event_group |-> part(9),
            events_count |-> Len(group),
            users_count |-> Cardinality(users),
            sessions_count |-> Cardinality(sessions),
            revenue_usd |-> 0,
            purchase_count |-> 0]

generateDailyRollups(evs) ==
    LET keys == MapKeys(evs, {})
    IN  [k \in DOMAIN keys |-> Rollup(keys[k], GroupEvents(evs, keys[k]))]

\* main script: const dailyRollups = generateDailyRollups(rawEvents)
GenerateDailyRollups ==
    /\ pc = "rollup"
    /\ dailyRollups' = generateDailyRollups(rawEvents)
    /\ pc' = "write"
    /\ UNCHANGED <<tz, now, day, sessionsLeft, sess, sessEvents, events,
                   rawEvents, result, mutated, files,
                   exitCode, choice>>

RAW_EVENTS_FILE == "data/raw_events.json"
DAILY_ROLLUPS_FILE == "data/daily_rollups.json"
VALIDATION_REPORT_FILE == "data/validation_report.json"

\* main script: create data/ when none of the three files exists (the run
\* starts in a directory without data/), then write the corpus and the
\* rollups
WriteData ==
    /\ pc = "write"
    /\ files' = files \cup {RAW_EVENTS_FILE, DAILY_ROLLUPS_FILE}
    /\ pc' = "validate"
    /\ UNCHANGED <<tz, now, day, sessionsLeft, sess, sessEvents, events,
                   rawEvents, dailyRollups, result, mutated, exitCode,
                   choice>>

-----------------------------------------------------------------------------
(* DataValidator.  Messages are records naming the check that pushed them
   and the values their text interpolates. *)

\* a property read used as a key or compared with ===: "undefined" when unset
Field(e, f) == IF Has(e, f) THEN e[f] ELSE "undefined"

\* each value of a sequence once, at its first occurrence (the insertion
\* order of an object's string keys)
RECURSIVE Distinct(_, _)
Distinct(s, seen) ==
    IF s = <<>> THEN <<>>
    ELSE IF s[1] \in seen THEN Distinct(Tail(s), seen)
    ELSE <<s[1]>> \o Distinct(Tail(s), seen \cup {s[1]})

\* reduce((acc, e) => { acc[k(e)] = (acc[k(e)] || 0) + 1 }, {})
CountBy(evs, f) ==
    [k \in {Field(evs[i], f) : i \in DOMAIN evs} |->
        Cardinality({i \in DOMAIN evs : Field(evs[i], f) = k})]

\* concatenation of a sequence of sequences
RECURSIVE Flatten(_)
Flatten(ss) == IF ss = <<>> THEN <<>> ELSE ss[1] \o Flatten(Tail(ss))

Abs(x) == IF x < 0 THEN -x ELSE x

\* String.prototype.includes on a version string: -dev. / -uat. tags
Includes(version, tag) ==
    CASE tag = "dev" -> version \in {"2.3.0-dev.5", "2.7.0-dev.3", "3.4.0-dev.10",
                                     "3.4.0-dev.11", "3.4.0-dev.12", "4.1.0-dev.5",
                                     "4.2.0-dev.3", "4.3.0-dev.6", "4.3.0-dev.8"}
      [] tag = "uat" -> version \in {"2.2.1-uat.3", "2.6.1-uat.2", "3.3.0-uat.8",
                                     "3.3.1-uat.5", "4.2.0-uat.7", "4.2.1-uat.2",
                                     "4.2.1-uat.3"}
      [] OTHER -> FALSE

EmptyResult == [isValid |-> TRUE, errors |-> <<>>, warnings |-> <<>>, stats |-> <<>>]

requiredFields ==
    <<"id", "source", "timestamp", "day", "hour", "app_id", "country", "platform">>

\* `!x` for a number property and for a string property
FalsyNumber(e, f) == ~Has(e, f) \/ e[f] = 0
FalsyString(e, f) == ~Has(e, f) \/ e[f] = ""

IsHttp(e) == Has(e, "perf_type") /\ e.perf_type = "http"

\* the errors for missing required fields of one event, in field order
MissingFieldErrors(e) ==
    LET missing == SelectSeq(requiredFields, LAMBDA f : ~Has(e, f))
    IN  [k \in DOMAIN missing |->
            [check |-> "schema", kind |-> "missing_required_field",
             id |-> Field(e, "id"), field |-> missing[k]]]

SchemaError(e, kind) == [check |-> "schema", kind |-> kind, id |-> Field(e, "id")]

\* the errors validateSchema pushes for one event, in order
EventSchemaErrors(e) ==
    MissingFieldErrors(e)
    \o (IF ~Has(e, "hour") \/ e.hour < 0 \/ e.hour > 23
        THEN <<SchemaError(e, "invalid_hour")>> ELSE <<>>)
    \o (IF ~Has(e, "count") \/ e.count # 1
        THEN <<SchemaError(e, "count_not_1")>> ELSE <<>>)
    \o (IF Field(e, "source") = "crash" /\ (~Has(e, "is_crash") \/ e.is_crash # 1)
        THEN <<SchemaError(e, "crash_without_is_crash")>> ELSE <<>>)
    \o (IF Field(e, "source") = "performance" /\ FalsyNumber(e, "duration_ms")
        THEN <<SchemaError(e, "missing_duration_ms")>> ELSE <<>>)
    \o (IF Field(e, "source") = "analytics" /\ FalsyString(e, "analytics_event")
        THEN <<SchemaError(e, "missing_analytics_event")>> ELSE <<>>)
    \o (IF IsHttp(e) /\ (FalsyNumber(e, "status_code") \/ FalsyString(e, "http_method")
                            \/ FalsyString(e, "url_path"))
        THEN <<SchemaError(e, "missing_http_fields")>> ELSE <<>>)
    \o (IF IsHttp(e) /\ Has(e, "status_code") /\ e.status_code >= 400
              /\ Has(e, "success") /\ e.success = TRUE
        THEN <<SchemaError(e, "error_status_but_success")>> ELSE <<>>)

validateSchema(res, evs) ==
    LET sample == Slice(evs, SCHEMA_SAMPLE)
        schemaErrors ==
            SumSeq([i \in DOMAIN sample |-> Len(MissingFieldErrors(sample[i]))])
    IN  [res EXCEPT
            !.errors = @ \o Flatten([i \in DOMAIN sample |-> EventSchemaErrors(sample[i])]),
            !.stats = ("schemaErrors" :> schemaErrors) @@ @]

\* APPS.find(a => a.id === event.app_id) is defined and its countries do not
\* include event.country
AppCountryViolation(e) ==
    \E k \in DOMAIN APPS :
        /\ APPS[k].id = Field(e, "app_id")
        /\ Field(e, "country") \notin APPS[k].countries

\* Variant of AppCountryErrors that tolerates a single violation.
AppCountryErrorsAboveOne(n) ==
    IF n > 1
    THEN <<[check |-> "business", kind |-> "app_country_mismatches", n |-> n]>>
    ELSE <<>>

\* if (appCountryViolations.length > 0) result.errors.push(...)
AppCountryErrors(n) ==
    IF n > 0
    THEN <<[check |-> "business", kind |-> "app_country_mismatches", n |-> n]>>
    ELSE <<>>

validateBusinessLogic(res, evs) ==
    LET appCountryViolations == SelectSeq(evs, AppCountryViolation)
        devVersions == SelectSeq(evs,
            LAMBDA e : e.release_channel = "dev" /\ ~Includes(e.app_version, "dev"))
        totalSessions == Cardinality({evs[i].session_id : i \in DOMAIN evs})
        crashingSessions ==
            Cardinality({evs[i].session_id : i \in {j \in DOMAIN evs : evs[j].is_crash = 1}})
    IN  [res EXCEPT
            !.errors = @ \o
                AppCountryErrors(Len(appCountryViolations)),
            !.warnings = @ \o
                (IF Len(devVersions) > 0
                 THEN <<[check |-> "business", kind |-> "dev_channel_without_dev",
                         n |-> Len(devVersions)]>>
                 ELSE <<>>)
                \o (IF totalSessions > 0 /\ 10 * crashingSessions > totalSessions
                    THEN <<[check |-> "business", kind |-> "high_crash_rate"]>>
                    ELSE <<>>),
            !.stats = ("crashRate" :> Ratio(crashingSessions, totalSessions))
                      @@ ("appCountryViolations" :> Len(appCountryViolations)) @@ @]

\* Math.abs(count / total - pct / 100) > tol / 100, false when the quotient is NaN
RatioOff(count, total, pct, tol) ==
    total > 0 /\ Abs(100 * count - pct * total) > tol * total

validLocales == {"EN", "SW", "RW", "FR", "ZH"}

validateDistributions(res, evs) ==
    LET sourceStats == CountBy(evs, "source")
        countryStats == CountBy(evs, "country")
        localeStats == CountBy(evs, "locale")
        total == Len(evs)
        countryCount(c) == IF Has(countryStats, c) THEN countryStats[c] ELSE 0
        offCountries == SelectSeq(COUNTRIES,
            LAMBDA c : RatioOff(countryCount(c.code), total, c.weight, 10))
        invalidLocales ==
            SelectSeq(Distinct([i \in DOMAIN evs |-> Field(evs[i], "locale")], {}),
                      LAMBDA l : l \notin validLocales)
    IN  [res EXCEPT
            !.warnings = @ \o
                (IF Has(sourceStats, "analytics")
                    /\ RatioOff(sourceStats.analytics, total, ANALYTICS_RATIO, 10)
                 THEN <<[check |-> "distributions", kind |-> "analytics_ratio"]>>
                 ELSE <<>>)
                \o (IF Has(sourceStats, "crash")
                       /\ RatioOff(sourceStats.crash, total, PERFORMANCE_RATIO, 10)
                    THEN <<[check |-> "distributions", kind |-> "performance_ratio"]>>
                    ELSE <<>>)
                \o (IF Has(sourceStats, "crash")
                       /\ RatioOff(sourceStats.crash, total, CRASH_RATIO, 2)
                    THEN <<[check |-> "distributions", kind |-> "crash_ratio"]>>
                    ELSE <<>>)
                \o [k \in DOMAIN offCountries |->
                       [check |-> "distributions", kind |-> "country_ratio",
                        country |-> offCountries[k].code]],
            !.errors = @ \o
                (IF Len(invalidLocales) > 0
                 THEN <<[check |-> "distributions", kind |-> "invalid_locales",
                         locales |-> invalidLocales]>>
                 ELSE <<>>),
            !.stats = ("distributions" :>
                          [sources |-> sourceStats, countries |-> countryStats,
                           locales |-> localeStats]) @@ @]

\* Date.prototype.getUTCDay(): 0 = Sunday; 2025-01-01 is a Wednesday
UTCDay(t) == (3 + t \div HoursPerDay) % 7

SeqMin(s) == SetMin(Range(s))
SeqMax(s) == CHOOSE x \in Range(s) : \A y \in Range(s) : y <= x

\* new Date(Math.min(...[])).toISOString() throws a RangeError
TimeSeriesThrows(evs) == evs = <<>>

\* validateTimeSeries on a non-empty corpus
validateTimeSeries(res, evs) ==
    LET dates == [i \in DOMAIN evs |-> evs[i].timestamp]
        minDate == SeqMin(dates)
        maxDate == SeqMax(dates)
        timeInconsistencies == SelectSeq(evs,
            LAMBDA e : UTCHours(e.timestamp) # e.hour \/ ISODate(e.timestamp) # e.day)
        dayOfWeekStats ==
            [w \in {UTCDay(dates[i]) : i \in DOMAIN dates} |->
                Cardinality({i \in DOMAIN dates : UTCDay(dates[i]) = w})]
        onDays(ws) == Cardinality({i \in DOMAIN dates : UTCDay(dates[i]) \in ws})
        weekdays == onDays(1 .. 5)
        weekends == onDays({0, 6})
    IN  [res EXCEPT
            !.warnings = @ \o
                (IF maxDate - minDate > (DATE_RANGE_DAYS + 5) * HoursPerDay
                 THEN <<[check |-> "timeSeries", kind |-> "date_range"]>>
                 ELSE <<>>)
                \o (IF Len(timeInconsistencies) > 0
                    THEN <<[check |-> "timeSeries", kind |-> "time_inconsistencies",
                            n |-> Len(timeInconsistencies)]>>
                    ELSE <<>>)
                \* weekends / 2 > (weekdays / 5) * 0.8
                \o (IF 25 * weekends > 8 * weekdays
                    THEN <<[check |-> "timeSeries", kind |-> "weekend_activity"]>>
                    ELSE <<>>),
            !.stats = ("timeSeries" :>
                          [dateRange |-> [min |-> ISODate(minDate), max |-> ISODate(maxDate)],
                           daySpan |-> Ratio(maxDate - minDate, HoursPerDay),
                           timeInconsistencies |-> Len(timeInconsistencies),
                           dayOfWeekStats |-> dayOfWeekStats]) @@ @]

\* the warnings validateRollupAccuracy pushes for one sampled rollup
RollupMismatches(rollup, evs) ==
    LET matchingEvents == SelectSeq(evs, LAMBDA e :
            /\ e.day = rollup.day
            /\ e.source = rollup.source
            /\ e.platform = rollup.platform
            /\ e.app_id = rollup.app_id
            /\ e.app_version = rollup.app_version
            /\ e.release_channel = rollup.release_channel
            /\ e.country = rollup.country
            /\ e.device_tier = rollup.device_tier)
        uniqueUsers ==
            Cardinality({matchingEvents[i].user_pseudo_id : i \in DOMAIN matchingEvents})
        uniqueSessions ==
            Cardinality({matchingEvents[i].session_id : i \in DOMAIN matchingEvents})
        mismatch(kind, expected, got) ==
            IF expected # got
            THEN <<[check |-> "rollupAccuracy", kind |-> kind,
                    expected |-> expected, got |-> got]>>
            ELSE <<>>
    IN  mismatch("events_count", Len(matchingEvents), rollup.events_count)
        \o mismatch("users_count", uniqueUsers, rollup.users_count)
        \o mismatch("sessions_count", uniqueSessions, rollup.sessions_count)

validateRollupAccuracy(res, evs, rollups) ==
    LET sampleRollups == Slice(rollups, ROLLUP_SAMPLE)
        pushed == Flatten([k \in DOMAIN sampleRollups |->
                              RollupMismatches(sampleRollups[k], evs)])
    IN  [res EXCEPT
            !.warnings = @ \o pushed,
            !.stats = ("rollupErrors" :> Len(pushed)) @@ @]

\* `${e.app_id}-${e.platform}-${e.release_channel}`
VersionGroupKey(e) == e.app_id \o "-" \o e.platform \o "-" \o e.release_channel

\* the adoption issues of one app-platform-channel group, in version order
GroupAdoptionIssues(groupKey, evs) ==
    LET group == SelectSeq(evs, LAMBDA e : VersionGroupKey(e) = groupKey)
        versions == Distinct([i \in DOMAIN group |-> group[i].app_version], {})
        versionEvents(v) == SelectSeq(group, LAMBDA e : e.app_version = v)
        \* versionEvents.length / DAYS > (events.length / DAYS) * 0.3
        flagged == SelectSeq(versions, LAMBDA v :
            /\ Includes(v, "dev") \/ Includes(v, "uat")
            /\ 10 * Len(versionEvents(v)) > 3 * Len(group))
    IN  [k \in DOMAIN flagged |-> [group |-> groupKey, version |-> flagged[k]]]

validateReleaseLogic(res, evs) ==
    LET groupKeys == Distinct([i \in DOMAIN evs |-> VersionGroupKey(evs[i])], {})
        releaseAdoptionIssues ==
            Flatten([k \in DOMAIN groupKeys |-> GroupAdoptionIssues(groupKeys[k], evs)])
    IN  [res EXCEPT
            !.warnings = @ \o
                (IF Len(releaseAdoptionIssues) > 0
                 THEN <<[check |-> "releaseLogic", kind |-> "release_adoption",
                         issues |-> releaseAdoptionIssues]>>
                 ELSE <<>>),
            !.stats = ("releaseAdoptionIssues" :> Len(releaseAdoptionIssues)) @@ @]

\* Variant of validateAll that settles isValid right after the schema check.
validateAllVerdictFirst(evs, rollups) ==
    LET r1 == validateSchema(EmptyResult, evs)
        r2 == validateBusinessLogic(r1, evs)
        r3 == validateDistributions(r2, evs)
        r4 == validateTimeSeries(r3, evs)
        r5 == validateRollupAccuracy(r4, evs, rollups)
        r6 == validateReleaseLogic(r5, evs)
    IN  [r6 EXCEPT !.isValid = (r1.errors = <<>>)]

\* Variant of validateAll for which a warning fails the validation too.
validateAllStrict(evs, rollups) ==
    LET r1 == validateSchema(EmptyResult, evs)
        r2 == validateBusinessLogic(r1, evs)
        r3 == validateDistributions(r2, evs)
        r4 == validateTimeSeries(r3, evs)
        r5 == validateRollupAccuracy(r4, evs, rollups)
        r6 == validateReleaseLogic(r5, evs)
    IN  [r6 EXCEPT !.isValid = (r6.errors = <<>> /\ r6.warnings = <<>>)]

\* validateAll on a corpus for which no check throws
validateAll(evs, rollups) ==
    LET r1 == validateSchema(EmptyResult, evs)
        r2 == validateBusinessLogic(r1, evs)
        r3 == validateDistributions(r2, evs)
        r4 == validateTimeSeries(r3, evs)
        r5 == validateRollupAccuracy(r4, evs, rollups)
        r6 == validateReleaseLogic(r5, evs)
    IN  [r6 EXCEPT !.isValid = (r6.errors = <<>>)]

\* validateGeneratedData: new DataValidator(rawEvents, dailyRollups).validateAll()
ValidateAll ==
    /\ pc = "validate"
    /\ IF TimeSeriesThrows(rawEvents)
       THEN /\ pc' = "threw"
            /\ UNCHANGED result
       ELSE /\ pc' = "done"
            /\ result' = [returned |-> TRUE] @@ validateAll(rawEvents, dailyRollups)
    /\ UNCHANGED <<tz, now, day, sessionsLeft, sess, sessEvents, events,
                   rawEvents, dailyRollups, mutated, files,
                   exitCode, choice>>

\* validateGeneratedData: after validateAll returned, write the report
WriteReport ==
    /\ pc = "done"
    /\ files' = files \cup {VALIDATION_REPORT_FILE}
    /\ pc' = "report"
    /\ UNCHANGED <<tz, now, day, sessionsLeft, sess, sessEvents, events,
                   rawEvents, dailyRollups, result, mutated, exitCode,
                   choice>>

\* validateGeneratedData: process.exit(1) when the result is not valid,
\* otherwise the script runs to its end
Exit ==
    /\ pc = "report"
    /\ exitCode' = IF ~result.isValid THEN 1 ELSE 0
    /\ pc' = "exited"
    /\ UNCHANGED <<tz, now, day, sessionsLeft, sess, sessEvents, events,
                   rawEvents, dailyRollups, result, mutated, files, choice>>

\* the exception validateAll raised is caught nowhere: the process ends
\* with status 1
UncaughtException ==
    /\ pc = "threw"
    /\ exitCode' = 1
    /\ pc' = "exited"
    /\ UNCHANGED <<tz, now, day, sessionsLeft, sess, sessEvents, events,
                   rawEvents, dailyRollups, result, mutated, files, choice>>

\* The main script: generateRawEvents, generateDailyRollups, validation.
Next ==
    \/ BeginDay(CoarseDraws)
    \/ StartSession(CoarseDraws)
    \/ SynthesizeEvent(CoarseDraws)
    \/ ReturnSession
    \/ EndDay
    \/ ShuffleAndReturn
    \/ GenerateDailyRollups
    \/ WriteData
    \/ ValidateAll
    \/ WriteReport
    \/ Exit
    \/ UncaughtException

Spec == Init /\ [][Next]_vars

-----------------------------------------------------------------------------
(* One call generateSession(day) on its own, for any day of the window.    *)

InitSession ==
    /\ tz \in FineDraws.tz
    /\ now \in FineDraws.now
    /\ pc = "sessionLoop"
    /\ day \in 0 .. DATE_RANGE_DAYS - 1
    /\ sessionsLeft = 1
    /\ sess = NoSession
    /\ sessEvents = <<>>
    /\ events = <<>>
    /\ rawEvents = <<>>
    /\ dailyRollups = <<>>
    /\ result = NoResult
    /\ mutated = FALSE
    /\ files = {}
    /\ exitCode = -1
    /\ choice = NoChoice

NextSession ==
    \/ StartSession(FineDraws)
    \/ SynthesizeEvent(FineDraws)
    \/ ReturnSession

SpecSession == InitSession /\ [][NextSession]_vars

-----------------------------------------------------------------------------
(* Corpora handed to generateDailyRollups and the DataValidator directly:
   arbitrary arrays of events of the generator's shape, as the shuffle and
   the truncation can leave them, possibly with one event's country
   overwritten afterwards. *)

\* the draws of a reference session and of its events
SampleDraws ==
    [country |-> 0, locale |-> 0, branch |-> 5000, app |-> 0, web |-> 0,
     platform |-> 0, device |-> 0, ch1 |-> 0, ch2 |-> 0, ch3 |-> 0,
     version |-> 0, net1 |-> 0, net2 |-> 0, carrier |-> 0, user |-> 7,
     os1 |-> 0, os2 |-> 0, count |-> 0, txn |-> 9000, uuid |-> "a3f1",
     aevent |-> 0, screen |-> 0, acct |-> 0, area |-> 0, seq |-> 0,
     txtype |-> 0, lognormal |-> 1500, perftype |-> 0, err |-> 5000,
     st1 |-> 9000, st2 |-> 9000, method |-> 0, endpoint |-> 0,
     payload |-> 8000, fps |-> 0, trace |-> 0, memory |-> 80,
     group |-> 0, fatal |-> 5000, ctype |-> 0, fg |-> 0]

\* Events of four sessions on day offset 0: the reference session, one on a
\* device of another tier, one with another session and user id, one in DRC.
SampleEvents(tzv, nowv) ==
    LET sA == SessionContext(0, SampleDraws, nowv)
        sTier == SessionContext(0, [SampleDraws EXCEPT !.device = 9999], nowv)
        sB == SessionContext(0, [SampleDraws EXCEPT !.uuid = "b2c4", !.user = 9], nowv)
        sDRC == SessionContext(0, [SampleDraws EXCEPT !.country = 9000], nowv)
        base(s, rHour) ==
            BaseEvent(s, "evt_0", generateTimestamp(0, rHour, tzv, nowv))
    IN  { PerformanceEvent(base(sA, 3000), sA, SampleDraws),
          PerformanceEvent(base(sA, 3000), sA,
              [SampleDraws EXCEPT !.err = 0, !.lognormal = 3000]),
          PerformanceEvent(base(sTier, 3000), sTier, SampleDraws),
          PerformanceEvent(base(sB, 3000), sB,
              [SampleDraws EXCEPT !.lognormal = 50]),
          AnalyticsEvent(base(sA, 0), sA, 0, SampleDraws),
          CrashEvent(base(sA, 3000), sA, SampleDraws),
          AnalyticsEvent(base(sDRC, 3000), sDRC, 0, SampleDraws) }

\* `evt_${randomUUID()}`: distinct ids, here by position
WithIds(s) == [i \in DOMAIN s |-> [s[i] EXCEPT !.id = "evt_" \o ToString(i)]]

Corpora(tzv, nowv) ==
    {WithIds(c) : c \in UNION {[1 .. n -> SampleEvents(tzv, nowv)] : n \in 0 .. MaxCorpus}}

\* one event's country overwritten by a code outside its app's list
MutatedCorpora(tzv, nowv) ==
    UNION {{[c EXCEPT ![i].country = code] : i \in DOMAIN c, code \in {"DRC", "XX"}}
           : c \in Corpora(tzv, nowv)}

InitCorpus ==
    /\ tz = 3
    /\ now \in CoarseDraws.now
    /\ pc = "rollup"
    /\ day = DATE_RANGE_DAYS
    /\ sessionsLeft = 0
    /\ sess = NoSession
    /\ sessEvents = <<>>
    /\ events = <<>>
    /\ \/ rawEvents \in Corpora(tz, now) /\ mutated = FALSE
       \/ rawEvents \in MutatedCorpora(tz, now) /\ mutated = TRUE
    /\ dailyRollups = <<>>
    /\ result = NoResult
    /\ files = {}
    /\ exitCode = -1
    /\ choice = NoChoice

NextCorpus ==
    \/ GenerateDailyRollups
    \/ WriteData
    \/ ValidateAll
    \/ WriteReport
    \/ Exit
    \/ UncaughtException

SpecCorpus == InitCorpus /\ [][NextCorpus]_vars


-----------------------------------------------------------------------------
(* Corpora that drift from the expected statistics without breaking any of
   the validator's error-class rules. *)

\* Events of four sessions: the reference session (an http and a screen
\* measurement, and a crash stamped at local midnight), a customer session
\* on the dev channel, a branch session on ios on the dev channel (no
\* catalog entry: the fallback version), and a session DATE_RANGE_DAYS + 6
\* days back.
DriftEvents(tzv, nowv) ==
    LET dev == [SampleDraws EXCEPT !.ch1 = 9000, !.ch2 = 9000, !.ch3 = 9000]
        sA == SessionContext(0, SampleDraws, nowv)
        sDev == SessionContext(0, [dev EXCEPT !.uuid = "c5d6", !.user = 11], nowv)
        sBranch == SessionContext(0,
                       [dev EXCEPT !.branch = 0, !.web = 9000, !.uuid = "d7e8",
                                   !.user = 13], nowv)
        sOld == SessionContext(DATE_RANGE_DAYS + 6,
                    [SampleDraws EXCEPT !.uuid = "e9f0", !.user = 17], nowv)
        base(s, rHour) ==
            BaseEvent(s, "evt_0", generateTimestamp(s.dayOffset, rHour, tzv, nowv))
    IN  { PerformanceEvent(base(sA, 3000), sA, SampleDraws),
          PerformanceEvent(base(sA, 3000), sA, [SampleDraws EXCEPT !.perftype = 2500]),
          CrashEvent(base(sA, 0), sA, SampleDraws),
          AnalyticsEvent(base(sDev, 3000), sDev, 0, SampleDraws),
          AnalyticsEvent(base(sBranch, 3000), sBranch, 0, SampleDraws),
          AnalyticsEvent(base(sOld, 3000), sOld, 0, SampleDraws) }

DriftCorpora(tzv, nowv) ==
    {WithIds(c) : c \in UNION {[1 .. n -> DriftEvents(tzv, nowv)] : n \in 0 .. MaxCorpus}}

InitDrift ==
    /\ tz = 3
    /\ now \in CoarseDraws.now
    /\ pc = "rollup"
    /\ day = DATE_RANGE_DAYS
    /\ sessionsLeft = 0
    /\ sess = NoSession
    /\ sessEvents = <<>>
    /\ events = <<>>
    /\ rawEvents \in DriftCorpora(tz, now)
    /\ mutated = FALSE
    /\ dailyRollups = <<>>
    /\ result = NoResult
    /\ files = {}
    /\ exitCode = -1
    /\ choice = NoChoice

SpecDrift == InitDrift /\ [][NextCorpus]_vars

-----------------------------------------------------------------------------
(* One call weightedChoice(items) on its own. *)

\* item lists with positive weights: up to MaxItems items weighing 1 or 3,
\* and the weighted catalogs of the program
ChoiceLists ==
    UNION {[1 .. n -> {[weight |-> w] : w \in {1, 3}}] : n \in 1 .. MaxItems}
    \cup {COUNTRIES, CRASH_GROUPS, DEVICES["ios"], DEVICES["android"],
          DEVICES["web"]}

\* Math.random() in ten-thousandths; RandDen + 1 stands for a draw so close
\* to 1 that floating-point rounding leaves a positive remainder after the
\* last subtraction
ChoiceDraws == {0, 2500, 5000, 7500, 9999, RandDen + 1}

InitChoice ==
    /\ tz = 0
    /\ now \in FineDraws.now
    /\ pc = "choice"
    /\ day = 0
    /\ sessionsLeft = 0
    /\ sess = NoSession
    /\ sessEvents = <<>>
    /\ events = <<>>
    /\ rawEvents = <<>>
    /\ dailyRollups = <<>>
    /\ result = NoResult
    /\ mutated = FALSE
    /\ files = {}
    /\ exitCode = -1
    /\ choice \in {[called |-> FALSE, items |-> l, r |-> r] :
                       l \in ChoiceLists, r \in ChoiceDraws}

\* the call returns
WeightedChoice ==
    /\ pc = "choice"
    /\ ~choice.called
    /\ choice' = [called |-> TRUE, items |-> choice.items, r |-> choice.r,
                  ret |-> weightedChoice(choice.items, choice.r)]
    /\ UNCHANGED <<tz, now, pc, day, sessionsLeft, sess, sessEvents, events,
                   rawEvents, dailyRollups, result, mutated, files, exitCode>>

NextChoice == WeightedChoice

SpecChoice == InitChoice /\ [][NextChoice]_vars

-----------------------------------------------------------------------------
(* One call generateSession(day) for the days of a longer window, with the
   draws that decide the app, the platform, the release channel and the
   version. *)

VersionDraws ==
    [CoarseDraws EXCEPT
        !.country = {0},
        !.app = {0, 9999},
        !.platform = {0, 4000, 9000},               \* ios, android, web
        !.ch1 = {0, 9000}, !.ch2 = {0, 9000}, !.ch3 = {0, 9000},
        !.version = {0, 5000, 9999},
        !.split = {0},
        !.err = {5000}]

InitVersion ==
    /\ tz = 0
    /\ now \in VersionDraws.now
    /\ pc = "sessionLoop"
    /\ day \in 0 .. VERSION_WINDOW_DAYS - 1
    /\ sessionsLeft = 1
    /\ sess = NoSession
    /\ sessEvents = <<>>
    /\ events = <<>>
    /\ rawEvents = <<>>
    /\ dailyRollups = <<>>
    /\ result = NoResult
    /\ mutated = FALSE
    /\ files = {}
    /\ exitCode = -1
    /\ choice = NoChoice

NextVersion ==
    \/ StartSession(VersionDraws)
    \/ SynthesizeEvent(VersionDraws)
    \/ ReturnSession

SpecVersion == InitVersion /\ [][NextVersion]_vars

-----------------------------------------------------------------------------
(* Corpora of customer sessions on the dev, uat and prod channels, one
   session per catalog version of its cohort. *)

\* Events of six eabank_main sessions on ios: one for each of the three dev
\* versions, one for each of the two uat versions, one on prod.
ReleaseEvents(tzv, nowv) ==
    LET dev == [SampleDraws EXCEPT !.ch1 = 9000, !.ch2 = 9000, !.ch3 = 9000]
        uat == [SampleDraws EXCEPT !.ch1 = 9000, !.ch2 = 9000, !.ch3 = 0]
        sessions ==
            { SessionContext(0, [dev EXCEPT !.version = 0, !.uuid = "d001"], nowv),
              SessionContext(0, [dev EXCEPT !.version = 5000, !.uuid = "d002"], nowv),
              SessionContext(0, [dev EXCEPT !.version = 9999, !.uuid = "d003"], nowv),
              SessionContext(0, [uat EXCEPT !.version = 0, !.uuid = "a001"], nowv),
              SessionContext(0, [uat EXCEPT !.version = 9999, !.uuid = "a002"], nowv),
              SessionContext(0, SampleDraws, nowv) }
    IN  { AnalyticsEvent(BaseEvent(s, "evt_0",
                                   generateTimestamp(0, 3000, tzv, nowv)),
                         s, 0, SampleDraws) : s \in sessions }

ReleaseCorpora(tzv, nowv) ==
    {WithIds(c) : c \in UNION {[1 .. n -> ReleaseEvents(tzv, nowv)] : n \in 0 .. MaxCorpus}}

InitRelease ==
    /\ tz = 0
    /\ now \in CoarseDraws.now
    /\ pc = "rollup"
    /\ day = DATE_RANGE_DAYS
    /\ sessionsLeft = 0
    /\ sess = NoSession
    /\ sessEvents = <<>>
    /\ events = <<>>
    /\ rawEvents \in ReleaseCorpora(tz, now)
    /\ mutated = FALSE
    /\ dailyRollups = <<>>
    /\ result = NoResult
    /\ files = {}
    /\ exitCode = -1
    /\ choice = NoChoice

SpecRelease == InitRelease /\ [][NextCorpus]_vars

-----------------------------------------------------------------------------
(* Corpora in which one event may have been damaged after generation, as
   the schema check is there to detect. *)

\* an http call answered 500 and a crash of the reference session
SchemaEvents(tzv, nowv) ==
    LET sA == SessionContext(0, SampleDraws, nowv)
        base == BaseEvent(sA, "evt_0", generateTimestamp(0, 3000, tzv, nowv))
    IN  { PerformanceEvent(base, sA, [SampleDraws EXCEPT !.err = 0]),
          CrashEvent(base, sA, SampleDraws) }

\* what a damaged copy of event e can look like: the id deleted, the hour
\* out of range, the count doubled, a failed http call marked successful
Damaged(e) ==
    {[f \in DOMAIN e \ {"id"} |-> e[f]],
     [e EXCEPT !.hour = 24],
     [e EXCEPT !.count = 2]}
    \cup (IF IsHttp(e) THEN {[e EXCEPT !.success = TRUE]} ELSE {})

SoundCorpora(tzv, nowv) ==
    {WithIds(c) : c \in UNION {[1 .. n -> SchemaEvents(tzv, nowv)] : n \in 0 .. MaxCorpus}}

DamagedCorpora(tzv, nowv) ==
    UNION {UNION {{[c EXCEPT ![i] = d] : d \in Damaged(c[i])} : i \in DOMAIN c}
           : c \in SoundCorpora(tzv, nowv)}

InitSchema ==
    /\ tz = 0
    /\ now \in CoarseDraws.now
    /\ pc = "rollup"
    /\ day = DATE_RANGE_DAYS
    /\ sessionsLeft = 0
    /\ sess = NoSession
    /\ sessEvents = <<>>
    /\ events = <<>>
    /\ \/ rawEvents \in SoundCorpora(tz, now) /\ mutated = FALSE
       \/ rawEvents \in DamagedCorpora(tz, now) /\ mutated = TRUE
    /\ dailyRollups = <<>>
    /\ result = NoResult
    /\ files = {}
    /\ exitCode = -1
    /\ choice = NoChoice

SpecSchema == InitSchema /\ [][NextCorpus]_vars
-----------------------------------------------------------------------------
(* Properties. *)

\* every event generateSession has built so far, wherever it now is
Generated == Range(sessEvents) \cup Range(events) \cup Range(rawEvents)

\* generateRawEvents has returned
Returned ==
    pc \in {"rollup", "write", "validate", "done", "threw", "report", "exited"}

\* generateDailyRollups has returned
RolledUp == pc \in {"write", "validate", "done", "threw", "report", "exited"}

CountryOf(code) == CHOOSE c \in Range(COUNTRIES) : c.code = code

\* C1: for every event generateSession produced, under every day offset and
\* host time zone, `day` is the UTC calendar date of `timestamp` and `hour`
\* is the UTC hour of `timestamp`.
C1_DayHourAreUTC ==
    \A e \in Generated :
        /\ e.day = ISODate(e.timestamp)
        /\ e.hour = UTCHours(e.timestamp)

\* C2: for every generated event with source = performance and
\* perf_type = http, success is true exactly when status_code < 400, and
\* status_code is 200, 400, 401 or 500.
C2_SuccessMatchesStatus ==
    \A e \in Generated :
        (e.source = "performance" /\ e.perf_type = "http") =>
            /\ e.success = (e.status_code < 400)
            /\ e.status_code \in {200, 400, 401, 500}

\* a session holding a failed and a successful http call
C2_Witness ==
    /\ \E e \in Range(sessEvents) :
          e.source = "performance" /\ e.perf_type = "http"
          /\ e.status_code = 401 /\ e.success = FALSE
    /\ \E e \in Range(sessEvents) :
          e.source = "performance" /\ e.perf_type = "http"
          /\ e.status_code = 200 /\ e.success = TRUE

\* C3: for every generated event, count = 1, and is_crash = 1 exactly when
\* source = crash; is_crash = 0 on every analytics and performance event.
C3_CountAndCrashFlag ==
    \A e \in Generated :
        /\ e.count = 1
        /\ (e.is_crash = 1) = (e.source = "crash")
        /\ e.source \in {"analytics", "performance"} => e.is_crash = 0

\* a returned session holding a crash event and an event of another source
C3_Witness ==
    /\ pc = "sessionLoop"
    /\ \E e \in Range(events) : e.source = "crash" /\ e.is_crash = 1
    /\ \E e \in Range(events) : e.source = "analytics" /\ e.is_crash = 0

\* C4: for every generated event, carrier is present exactly when
\* network_type = cellular, and a present carrier is one of the carriers of
\* the event's country.
C4_CarrierIffCellular ==
    \A e \in Generated :
        /\ Has(e, "carrier") = (e.network_type = "cellular")
        /\ Has(e, "carrier") => e.carrier \in Range(CountryOf(e.country).carriers)

\* a cellular event carrying its country's second carrier
C4_Witness ==
    \E e \in Range(sessEvents) :
        /\ e.network_type = "cellular"
        /\ e.country = "UG"
        /\ Has(e, "carrier") /\ e.carrier = "Airtel Uganda"

\* C5: the list generateRawEvents returns has length exactly
\* CONFIG.TOTAL_EVENTS_TARGET, whatever the draws (daily session counts,
\* abandoned sessions, per-session event counts).
C5_LengthIsTarget == Returned => Len(rawEvents) = TOTAL_EVENTS_TARGET

\* the nine grouping fields of an event and of a rollup
Key9(e) ==
    <<e.day, e.source, e.platform, e.app_id, e.app_version, e.release_channel,
      e.country, e.device_tier, EventGroup(e)>>

RollupTuple(r) ==
    <<r.day, r.source, r.platform, r.app_id, r.app_version, r.release_channel,
      r.country, r.device_tier, r.event_group>>

\* positions of the raw events mapping to the 9-tuple of rollup r
Members(r) == {i \in DOMAIN rawEvents : Key9(rawEvents[i]) = RollupTuple(r)}

\* C6: generateDailyRollups emits exactly one rollup per distinct 9-tuple
\* occurring in the corpus; its events_count, users_count and sessions_count
\* are the numbers of raw events, distinct user_pseudo_id and distinct
\* session_id among the events of that tuple; the events_count values sum to
\* the corpus length.
C6_OneRollupPerTuple ==
    RolledUp =>
        /\ {RollupTuple(dailyRollups[k]) : k \in DOMAIN dailyRollups}
               = {Key9(rawEvents[i]) : i \in DOMAIN rawEvents}
        /\ \A k1, k2 \in DOMAIN dailyRollups :
               RollupTuple(dailyRollups[k1]) = RollupTuple(dailyRollups[k2]) => k1 = k2
        /\ \A k \in DOMAIN dailyRollups :
               LET r == dailyRollups[k]
               IN  /\ r.events_count = Cardinality(Members(r))
                   /\ r.users_count =
                          Cardinality({rawEvents[i].user_pseudo_id : i \in Members(r)})
                   /\ r.sessions_count =
                          Cardinality({rawEvents[i].session_id : i \in Members(r)})
        /\ SumSeq([k \in DOMAIN dailyRollups |-> dailyRollups[k].events_count])
               = Len(rawEvents)

\* three events in two groups; one group holds two events of two users and
\* two sessions, the other differs from it in device_tier alone
C6_Witness ==
    /\ pc = "validate"
    /\ Len(rawEvents) = 3
    /\ Len(dailyRollups) = 2
    /\ dailyRollups[1].events_count = 2
    /\ dailyRollups[1].users_count = 2
    /\ dailyRollups[1].sessions_count = 2
    /\ dailyRollups[1].device_tier # dailyRollups[2].device_tier
    /\ \A j \in (1 .. 9) \ {8} :
          RollupTuple(dailyRollups[1])[j] = RollupTuple(dailyRollups[2])[j]

\* positions of the duration-bearing events of rollup r's group
Timed(r) == {i \in Members(r) : Has(rawEvents[i], "duration_ms")}

\* the k-th smallest (k from 0) of the durations at positions S
Ranked(S, k) ==
    CHOOSE x \in {rawEvents[i].duration_ms : i \in S} :
        /\ Cardinality({i \in S : rawEvents[i].duration_ms < x}) <= k
        /\ Cardinality({i \in S : rawEvents[i].duration_ms <= x}) > k

\* C7: in a rollup group with n >= 1 duration-bearing events the indices
\* floor(n*0.5), floor(n*0.9), floor(n*0.99) lie in 0..n-1, so p50, p90 and
\* p99 are the values at those ranks of the group's ascending durations, and
\* p50 <= p90 <= p99; a group with no duration-bearing event carries none of
\* avg/p50/p90/p99.
C7_PercentilesDefinedAndMonotone ==
    RolledUp =>
        \A k \in DOMAIN dailyRollups :
            LET r == dailyRollups[k]
                n == Cardinality(Timed(r))
                i50 == (n * 50) \div 100
                i90 == (n * 90) \div 100
                i99 == (n * 99) \div 100
                fields == {"avg_duration_ms", "p50_duration_ms",
                           "p90_duration_ms", "p99_duration_ms"}
            IN  IF n >= 1
                THEN /\ {i50, i90, i99} \subseteq 0 .. n - 1
                     /\ fields \subseteq DOMAIN r
                     /\ r.p50_duration_ms = Ranked(Timed(r), i50)
                     /\ r.p90_duration_ms = Ranked(Timed(r), i90)
                     /\ r.p99_duration_ms = Ranked(Timed(r), i99)
                     /\ r.p50_duration_ms <= r.p90_duration_ms
                     /\ r.p90_duration_ms <= r.p99_duration_ms
                ELSE fields \cap DOMAIN r = {}

\* a group whose three durations arrive unsorted and give p50 < p99
C7_Witness ==
    /\ pc = "validate"
    /\ Len(rawEvents) = 3
    /\ \A i \in 1 .. 3 : Has(rawEvents[i], "duration_ms")
    /\ rawEvents[1].duration_ms > rawEvents[2].duration_ms
    /\ Len(dailyRollups) = 1
    /\ dailyRollups[1].p50_duration_ms < dailyRollups[1].p99_duration_ms

\* a group without any duration: no avg and no percentile
C7_WitnessBare ==
    /\ pc = "validate"
    /\ \E k \in DOMAIN dailyRollups :
          /\ Timed(dailyRollups[k]) = {}
          /\ ~Has(dailyRollups[k], "avg_duration_ms")

\* positions of the events whose app is known and does not list their country
Mismatched ==
    {i \in DOMAIN rawEvents :
        \E a \in Range(APPS) :
            a.id = rawEvents[i].app_id /\ rawEvents[i].country \notin a.countries}

AppCountryErrorsIn(errors) ==
    {k \in DOMAIN errors :
        errors[k].check = "business" /\ errors[k].kind = "app_country_mismatches"}

\* C9: on a non-empty corpus in which some event, at any position, has a
\* known app_id and a country outside that app's list, validateAll returns,
\* with at least one app-country error and isValid = false.
C9_MismatchIsAnError ==
    (pc \in {"done", "threw"} /\ rawEvents # <<>> /\ Mismatched # {}) =>
        /\ pc = "done"
        /\ result.returned
        /\ AppCountryErrorsIn(result.errors) # {}
        /\ result.isValid = FALSE

\* a validated corpus whose only mismatch is at its last position
C9_Witness ==
    /\ pc = "done"
    /\ mutated
    /\ Len(rawEvents) = MaxCorpus
    /\ Mismatched = {MaxCorpus}
    /\ result.isValid = FALSE
    /\ AppCountryErrorsIn(result.errors) # {}

\* C10: on every non-empty corpus generateRawEvents can produce, with the
\* rollups generateDailyRollups computes from it, validateAll appends no
\* error: isValid = true, stats.schemaErrors = 0 and
\* stats.appCountryViolations = 0.  (No catalog locale is an invalid locale,
\* whichever country and locale a session draws.)
C10_GeneratedCorpusIsValid ==
    /\ \A c \in Range(COUNTRIES) : \A l \in Range(c.locales) : l.code \in validLocales
    /\ (Returned /\ rawEvents # <<>> /\ pc \in {"done", "threw"}) => pc = "done"
    /\ pc = "done" =>
          /\ result.errors = <<>>
          /\ result.isValid = TRUE
          /\ result.stats.schemaErrors = 0
          /\ result.stats.appCountryViolations = 0

\* a validated corpus holding a failed http call from DRC
C10_Witness ==
    /\ pc = "done"
    /\ ~mutated
    /\ result.isValid = TRUE
    /\ \E e \in Range(rawEvents) :
          /\ e.country = "DRC"
          /\ e.source = "performance"
          /\ e.perf_type = "http"
          /\ e.status_code = 500

IsPrefix(s, t) == Len(s) <= Len(t) /\ SubSeq(t, 1, Len(s)) = s

\* the result after each of the six checks, in the order validateAll runs them
CheckStages ==
    LET r1 == validateSchema(EmptyResult, rawEvents)
        r2 == validateBusinessLogic(r1, rawEvents)
        r3 == validateDistributions(r2, rawEvents)
        r4 == validateTimeSeries(r3, rawEvents)
        r5 == validateRollupAccuracy(r4, rawEvents, dailyRollups)
        r6 == validateReleaseLogic(r5, rawEvents)
    IN  <<EmptyResult, r1, r2, r3, r4, r5, r6>>

\* C11: validateAll runs all six checks before it sets isValid; the returned
\* isValid is true exactly when the returned errors list is empty; no check
\* removes or rewrites an entry another check appended.
C11_AllChecksThenVerdict ==
    pc = "done" =>
        /\ \A k \in 1 .. 6 :
              /\ IsPrefix(CheckStages[k].errors, CheckStages[k + 1].errors)
              /\ IsPrefix(CheckStages[k].warnings, CheckStages[k + 1].warnings)
        /\ result.errors = CheckStages[7].errors
        /\ result.warnings = CheckStages[7].warnings
        /\ DOMAIN result.stats =
               {"schemaErrors", "crashRate", "appCountryViolations", "distributions",
                "timeSeries", "rollupErrors", "releaseAdoptionIssues"}
        /\ result.isValid = (result.errors = <<>>)

\* a returned result with an error and with warnings of three checks
C11_Witness ==
    /\ pc = "done"
    /\ result.errors # <<>>
    /\ result.isValid = FALSE
    /\ {"business", "distributions", "timeSeries"}
           \subseteq {result.warnings[k].check : k \in DOMAIN result.warnings}


\* the three files the main script writes
DataFiles == {RAW_EVENTS_FILE, DAILY_ROLLUPS_FILE, VALIDATION_REPORT_FILE}

\* C12: in every run that reaches validation, once the process has ended
\* all three files (raw events, rollups, validation report) are written
\* whatever the outcome, and the exit status is 1 exactly when the
\* validation result holds at least one error.
C12_FilesWrittenThenExit ==
    exitCode # -1 =>
        /\ files = DataFiles
        /\ (exitCode = 1) = (result.returned /\ result.errors # <<>>)

\* the optional-field groups of RawEvent
CrashOnlyFields == {"crash_type", "exception_type", "crash_group_id", "foreground"}

PerformanceFields ==
    {"perf_type", "duration_ms", "success", "http_method", "url_path",
     "status_code", "ttfb_ms", "payload_bytes", "fps_avg", "trace_name",
     "cpu_ms", "memory_mb"}

AnalyticsFields ==
    {"analytics_event", "transaction_type", "currency", "account_type",
     "branch_code", "value_num"}

AbsentAll(e, fields) == \A f \in fields : ~Has(e, f)

\* C13 as stated: on every generated event only the field group selected by
\* `source` is populated; crash_type, exception_type, crash_group_id and
\* is_fatal are absent on analytics and performance events, the performance
\* fields are absent on analytics and crash events, the analytics fields are
\* absent on performance and crash events.
C13_OnlyActiveGroup ==
    \A e \in Generated :
        /\ e.source # "crash" => AbsentAll(e, CrashOnlyFields \cup {"is_fatal"})
        /\ e.source # "performance" => AbsentAll(e, PerformanceFields)
        /\ e.source # "analytics" => AbsentAll(e, AnalyticsFields)

\* C13 (amended): is_fatal is present on every generated event and is 0
\* off crash events; crash_type, exception_type, crash_group_id and
\* foreground are absent on analytics and performance events, the
\* performance fields are absent on analytics and crash events, the
\* analytics fields are absent on performance and crash events.
C13_OnlyActiveGroupButIsFatal ==
    \A e \in Generated :
        /\ Has(e, "is_fatal")
        /\ e.source # "crash" => e.is_fatal = 0 /\ AbsentAll(e, CrashOnlyFields)
        /\ e.source # "performance" => AbsentAll(e, PerformanceFields)
        /\ e.source # "analytics" => AbsentAll(e, AnalyticsFields)

C13_Witness ==
    /\ \E e \in Generated : e.source = "crash" /\ e.is_fatal = 1
    /\ \E e \in Generated : e.source # "crash" /\ e.is_fatal = 0

\* the session-level fields of an event
SessionFields ==
    {"country", "app_id", "platform", "device_model", "device_tier",
     "app_version", "release_channel", "network_type", "user_pseudo_id"}

\* C14: in the corpus generateRawEvents returned (no event overwritten
\* afterwards), any two events carrying the same session_id have the same
\* country, app_id, platform, device_model, device_tier, app_version,
\* release_channel, network_type and user_pseudo_id.
C14_SessionIdFixesContext ==
    ~mutated =>
        \A i, j \in DOMAIN rawEvents :
            rawEvents[i].session_id = rawEvents[j].session_id =>
                \A f \in SessionFields : rawEvents[i][f] = rawEvents[j][f]

\* the currency README's usage notes give for each country
CurrencyOfCountry ==
    [KE |-> "KES", UG |-> "UGX", TZ |-> "TZS", RW |-> "USD", DRC |-> "USD",
     SS |-> "USD"]

\* C15: on every generated event currency is set exactly when the event is
\* an analytics event with analytics_event = transaction_completed, and its
\* value depends on country alone: KE -> KES, UG -> UGX, TZ -> TZS, every
\* other country -> USD.
C15_CurrencyByCountry ==
    \A e \in Generated :
        /\ Has(e, "currency") =
               (e.source = "analytics" /\ e.analytics_event = "transaction_completed")
        /\ Has(e, "currency") => e.currency = CurrencyOfCountry[e.country]

C15_Witness ==
    /\ \E e \in Generated : Has(e, "currency") /\ e.currency = "TZS"
    /\ \E e \in Generated : e.source = "analytics" /\ ~Has(e, "currency")

\* the cumulative subtraction of a weightedChoice call never reaches <= 0
NeverReachesZero(items, r) ==
    \A k \in DOMAIN items :
        r * SumSeq(Weights(items)) > CumWeight(Weights(items), k) * RandDen

\* C16: for every non-empty item list with positive weights and every draw,
\* weightedChoice returns an element of the list (it indexes nothing outside
\* the list), and it returns the last item when the cumulative subtraction
\* never reaches <= 0.
C16_ReturnsAnItem ==
    choice.called =>
        /\ choice.ret \in Range(choice.items)
        /\ NeverReachesZero(choice.items, choice.r) =>
               choice.ret = choice.items[Len(choice.items)]

C16_Witness ==
    /\ choice.called
    /\ Len(choice.items) > 1
    /\ NeverReachesZero(choice.items, choice.r)
    /\ choice.ret = choice.items[Len(choice.items)]

\* the corpus breaks none of the validator's error-class rules: the sampled
\* events pass the schema check, no event pairs a known app with a country
\* outside its list, every locale is a valid one
DriftOnly ==
    /\ \A i \in 1 .. Min(SCHEMA_SAMPLE, Len(rawEvents)) :
           EventSchemaErrors(rawEvents[i]) = <<>>
    /\ Mismatched = {}
    /\ \A i \in DOMAIN rawEvents : rawEvents[i].locale \in validLocales

WarningKinds == {result.warnings[k].kind : k \in DOMAIN result.warnings}

DriftKinds ==
    {"analytics_ratio", "performance_ratio", "crash_ratio", "country_ratio",
     "date_range", "time_inconsistencies", "weekend_activity",
     "dev_channel_without_dev", "high_crash_rate", "events_count",
     "users_count", "sessions_count", "release_adoption"}

\* C17: a validated corpus whose only findings are statistical drift (a
\* source or country ratio outside tolerance, a date span above window + 5,
\* timestamp/day/hour inconsistencies, excessive weekend volume, dev-channel
\* versions without 'dev', a crash rate above 10%, rollup count mismatches,
\* release-adoption issues) has them recorded in warnings only: errors is
\* empty and isValid is true.
C17_DriftOnlyWarns ==
    (pc = "done" /\ DriftOnly) =>
        /\ result.errors = <<>>
        /\ result.isValid = TRUE
        /\ WarningKinds \subseteq DriftKinds
        /\ (\E i \in DOMAIN rawEvents :
               /\ rawEvents[i].release_channel = "dev"
               /\ ~Includes(rawEvents[i].app_version, "dev"))
               => "dev_channel_without_dev" \in WarningKinds
        /\ (\E i \in DOMAIN rawEvents :
               \/ rawEvents[i].day # ISODate(rawEvents[i].timestamp)
               \/ rawEvents[i].hour # UTCHours(rawEvents[i].timestamp))
               => "time_inconsistencies" \in WarningKinds
        /\ (\E i, j \in DOMAIN rawEvents :
               rawEvents[i].timestamp - rawEvents[j].timestamp
                   > (DATE_RANGE_DAYS + 5) * HoursPerDay)
               => "date_range" \in WarningKinds
        /\ result.stats.rollupErrors > 0
               => WarningKinds \cap {"events_count", "users_count", "sessions_count"} # {}
        /\ result.stats.releaseAdoptionIssues > 0
               => "release_adoption" \in WarningKinds

C17_Witness ==
    /\ pc = "done"
    /\ DriftOnly
    /\ {"dev_channel_without_dev", "high_crash_rate", "date_range",
        "time_inconsistencies", "weekend_activity"} \subseteq WarningKinds
    /\ result.errors = <<>>
    /\ result.isValid = TRUE

\* no app of the role lists the country
NoAppFor(countryCode, isBranchSession) ==
    \A a \in Range(APPS) :
        a.isBranchApp = isBranchSession => countryCode \notin a.countries

\* C18: generateSession returns an empty list exactly when no app of the
\* drawn role (branch apps for a branch session, the others otherwise)
\* lists the drawn country; with the shipped catalog that is exactly a
\* branch session in DRC; every event of a session that was not abandoned
\* pairs its app_id with a country of that app's list.
C18_AbandonedIffNoApp ==
    /\ Has(sess, "country") =>
           /\ sess.abandoned = NoAppFor(sess.country.code, sess.isBranchSession)
           /\ sess.abandoned => sessEvents = <<>> /\ pc = "sessionLoop"
           /\ ~sess.abandoned => pc = "session"
    /\ \A c \in Range(COUNTRIES), b \in BOOLEAN :
           (AvailableApps(c.code, b) = <<>>) = (b /\ c.code = "DRC")
    /\ \A e \in Generated :
           \E a \in Range(APPS) : a.id = e.app_id /\ e.country \in a.countries

C18_Witness ==
    /\ Has(sess, "country")
    /\ sess.abandoned
    /\ sess.isBranchSession
    /\ sess.country.code = "DRC"
    /\ sessionsLeft = 0
    /\ events = <<>>

\* C19: in every customer (non-branch) session flagged for a transaction,
\* the event synthesized in the final slot is an analytics event with
\* analytics_event = transaction_completed, whatever the crash decision and
\* the analytics-vs-performance split draw for that slot.
C19_FinalSlotIsTransaction ==
    (/\ pc = "session"
     /\ sess.hasTransaction
     /\ Len(sessEvents) = sess.eventCount) =>
        LET last == sessEvents[sess.eventCount]
        IN  /\ last.source = "analytics"
            /\ last.analytics_event = "transaction_completed"

\* the analytics events of branch sessions generated so far: a branch
\* session runs a branch app, a customer session never does
BranchAnalytics ==
    {e \in Generated :
        /\ e.source = "analytics"
        /\ \E a \in Range(APPS) : a.id = e.app_id /\ a.isBranchApp}

\* C20 as stated: on every analytics event of a branch session account_type
\* and branch_code are attached exactly when analytics_event =
\* customer_account_opened; the other branch analytics events carry neither.
C20_BranchFieldsOnOpening ==
    \A e \in BranchAnalytics :
        LET opened == e.analytics_event = "customer_account_opened"
        IN  /\ Has(e, "account_type") = opened
            /\ Has(e, "branch_code") = opened

\* C20 (amended): every analytics event of a branch session carries a
\* branch_code; account_type (and value_num = 1) is
\* attached exactly when analytics_event = customer_account_opened; no
\* other event carries either field.
C20_BranchCodeAlways ==
    /\ \A e \in BranchAnalytics :
           LET opened == e.analytics_event = "customer_account_opened"
           IN  /\ Has(e, "branch_code")
               /\ Has(e, "account_type") = opened
               /\ Has(e, "value_num") = opened
               /\ opened => e.value_num = 1 /\ e.account_type \in Range(ACCOUNT_TYPES)
    /\ \A e \in Generated \ BranchAnalytics :
           ~Has(e, "branch_code") /\ ~Has(e, "account_type")

C20_Witness ==
    /\ \E e \in BranchAnalytics :
           /\ e.analytics_event # "customer_account_opened"
           /\ Has(e, "branch_code") /\ ~Has(e, "account_type")
    /\ \E e \in BranchAnalytics :
           /\ e.analytics_event = "customer_account_opened"
           /\ Has(e, "branch_code") /\ Has(e, "account_type")

\* C21: a rollup carries crash_rate_per_1k_sessions exactly when its source
\* is crash, and the rate is then events_count / sessions_count * 1000 over
\* the events of that rollup's group only; it is never below 1000.
C21_CrashRatePerGroup ==
    RolledUp =>
        \A k \in DOMAIN dailyRollups :
            LET r == dailyRollups[k]
                sessions == {rawEvents[i].session_id : i \in Members(r)}
            IN  /\ Has(r, "crash_rate_per_1k_sessions") = (r.source = "crash")
                /\ r.source = "crash" =>
                       /\ r.crash_rate_per_1k_sessions.num
                              = Cardinality(Members(r)) * 1000
                       /\ r.crash_rate_per_1k_sessions.den = Cardinality(sessions)
                       /\ r.events_count = Cardinality(Members(r))
                       /\ r.sessions_count = Cardinality(sessions)
                       /\ r.crash_rate_per_1k_sessions.num
                              >= 1000 * r.crash_rate_per_1k_sessions.den

\* two crashes of one session next to an event of another source
C21_Witness ==
    /\ RolledUp
    /\ \E k \in DOMAIN dailyRollups :
           /\ dailyRollups[k].source = "crash"
           /\ dailyRollups[k].crash_rate_per_1k_sessions = Ratio(2000, 1)
    /\ \E k \in DOMAIN dailyRollups :
           /\ dailyRollups[k].source # "crash"
           /\ ~Has(dailyRollups[k], "crash_rate_per_1k_sessions")

\* the number of events of a source in the validated corpus
SourceCount(source) ==
    Cardinality({i \in DOMAIN rawEvents : rawEvents[i].source = source})

\* the share of a source differs from pct percent by more than tol percent
ShareOff(source, pct, tol) ==
    Abs(100 * SourceCount(source) - pct * Len(rawEvents)) > tol * Len(rawEvents)

DistributionKinds ==
    {result.warnings[k].kind :
        k \in {j \in DOMAIN result.warnings :
                  result.warnings[j].check = "distributions"}}

\* C22: validateDistributions appends the performance-ratio warning exactly
\* when the share of performance events differs from PERFORMANCE_RATIO by
\* more than 0.1, the analytics-ratio warning exactly when the analytics
\* share differs from ANALYTICS_RATIO by more than 0.1, and the crash-ratio
\* warning exactly when the crash share differs from CRASH_RATIO by more
\* than 0.02, a corpus without crash events having the crash share 0.
C22_RatioWarnings ==
    pc = "done" =>
        /\ ("performance_ratio" \in DistributionKinds)
               = ShareOff("performance", PERFORMANCE_RATIO, 10)
        /\ ("analytics_ratio" \in DistributionKinds)
               = ShareOff("analytics", ANALYTICS_RATIO, 10)
        /\ ("crash_ratio" \in DistributionKinds)
               = ShareOff("crash", CRASH_RATIO, 2)

\* the sampled rollups whose counts differ from those of the raw events of
\* their exact 9-tuple
MiscountedRollups ==
    {k \in 1 .. Min(ROLLUP_SAMPLE, Len(dailyRollups)) :
        LET r == dailyRollups[k]
        IN  \/ r.events_count # Cardinality(Members(r))
            \/ r.users_count
                   # Cardinality({rawEvents[i].user_pseudo_id : i \in Members(r)})
            \/ r.sessions_count
                   # Cardinality({rawEvents[i].session_id : i \in Members(r)})}

\* C23: validateRollupAccuracy reports a mismatch exactly when one of the
\* first ROLLUP_SAMPLE rollups has an events_count, users_count or
\* sessions_count that differs from the raw events of its exact 9-tuple;
\* for the rollups generateDailyRollups computed from the validated corpus
\* it reports stats.rollupErrors = 0 and appends no rollup warning.
C23_OwnRollupsMatch ==
    pc = "done" =>
        /\ (result.stats.rollupErrors > 0) = (MiscountedRollups # {})
        /\ result.stats.rollupErrors = 0
        /\ \A k \in DOMAIN result.warnings :
               result.warnings[k].check # "rollupAccuracy"

\* the (app_version, build_number) pairs the static catalog lists for an
\* app, a release channel and a platform
CatalogEntries(appId, releaseChannel, platform) ==
    IF /\ appId \in DOMAIN VERSIONS_WITH_RELEASES
       /\ releaseChannel \in DOMAIN VERSIONS_WITH_RELEASES[appId]
       /\ platform \in DOMAIN VERSIONS_WITH_RELEASES[appId][releaseChannel]
    THEN {<<v.version, v.build_number>> :
              v \in Range(VERSIONS_WITH_RELEASES[appId][releaseChannel][platform])}
    ELSE {}

\* C24: every generated event's (app_version, build_number) is an entry of
\* the static version catalog for its (app_id, release_channel, platform),
\* so every generated event on the dev channel has an app_version containing
\* 'dev'; the fallback version 1.0.0 is given to no session.
C24_VersionFromCatalog ==
    \A e \in Generated :
        /\ <<e.app_version, e.build_number>>
               \in CatalogEntries(e.app_id, e.release_channel, e.platform)
        /\ e.release_channel = "dev" => Includes(e.app_version, "dev")
        /\ e.app_version # FallbackVersion.version

\* C25: the day offsets generateRawEvents treats as weekend (offset mod 7 in
\* {5, 6}) are exactly the offsets whose events fall on a Saturday or Sunday
\* in UTC, the days validateTimeSeries counts as weekend.
C25_WeekendOffsetsAreWeekends ==
    pc = "session" =>
        \A e \in Range(sessEvents) :
            (sess.dayOffset % 7 \in {5, 6}) = (UTCDay(e.timestamp) \in {0, 6})

\* C26: for every session date inside the window chooseVersionForSession
\* returns no version whose release_date is later than the session's
\* current date: the session's version has days_since_release >= 0, also
\* when shouldCrash applies the release-spike factor to it.
C26_VersionAlreadyReleased ==
    pc = "session" =>
        calculateDaysSinceRelease(sess.versionInfo.release_date,
                                  sess.currentDate) >= 0

\* C27: on every corpus generateRawEvents can hand it, the empty one
\* included, validateAll returns a result, without raising, whose stats hold
\* schemaErrors, crashRate, appCountryViolations, distributions, timeSeries,
\* rollupErrors and releaseAdoptionIssues.
C27_ValidateAllReturns ==
    pc \in {"done", "threw", "report", "exited"} =>
        /\ pc # "threw"
        /\ result.returned
        /\ {"schemaErrors", "crashRate", "appCountryViolations",
            "distributions", "timeSeries", "rollupErrors",
            "releaseAdoptionIssues"} \subseteq DOMAIN result.stats

\* the (app, platform, channel) cohort of an event
Cohort(e) == <<e.app_id, e.platform, e.release_channel>>

CohortEvents(c) == {i \in DOMAIN rawEvents : Cohort(rawEvents[i]) = c}

VersionEvents(c, v) == {i \in CohortEvents(c) : rawEvents[i].app_version = v}

Tagged(v) == Includes(v, "dev") \/ Includes(v, "uat")

\* the dev/uat-tagged versions holding more than 30% of their cohort
Prevalent ==
    {<<Cohort(rawEvents[i]), rawEvents[i].app_version>> : i \in
        {j \in DOMAIN rawEvents :
            /\ Tagged(rawEvents[j].app_version)
            /\ 10 * Cardinality(VersionEvents(Cohort(rawEvents[j]),
                                              rawEvents[j].app_version))
                   > 3 * Cardinality(CohortEvents(Cohort(rawEvents[j])))}}

\* the catalog versions of a cohort
CohortCatalog(c) == {p[1] : p \in CatalogEntries(c[1], c[3], c[2])}

\* every cohort's events are spread evenly over that cohort's catalog
\* versions
SpreadOverCatalog ==
    \A i \in DOMAIN rawEvents :
        LET c == Cohort(rawEvents[i])
        IN  /\ rawEvents[i].app_version \in CohortCatalog(c)
            /\ \A v \in CohortCatalog(c) :
                   Cardinality(VersionEvents(c, v))
                       = Cardinality(VersionEvents(c, rawEvents[i].app_version))

\* C28: validateReleaseLogic flags a dev/uat-tagged version exactly when its
\* events exceed 30% of its cohort's events, and a corpus with dev or uat
\* events whose cohorts are spread over their catalog versions passes the
\* check with stats.releaseAdoptionIssues = 0.
C28_SpreadCohortsPass ==
    pc = "done" =>
        /\ result.stats.releaseAdoptionIssues = Cardinality(Prevalent)
        /\ ("release_adoption" \in WarningKinds) = (Prevalent # {})
        /\ SpreadOverCatalog => result.stats.releaseAdoptionIssues = 0

\* the error entries the schema check appended
SchemaErrorEntries ==
    {k \in DOMAIN result.errors : result.errors[k].check = "schema"}

\* C29: after validateSchema stats.schemaErrors equals the number of error
\* entries the schema check appended over the sampled events (missing
\* required field, invalid hour, count != 1, crash/performance/analytics
\* field inconsistency, missing HTTP fields, error status with success =
\* true), so stats.schemaErrors = 0 exactly when the schema check found no
\* violation.
C29_SchemaErrorsCountsEntries ==
    pc = "done" =>
        /\ result.stats.schemaErrors = Cardinality(SchemaErrorEntries)
        /\ (result.stats.schemaErrors = 0) = (SchemaErrorEntries = {})

====
